---- MODULE Spec2Model ----
(***************************************************************************)
(* OPNsense-config-faker: the VLAN record generator                        *)
(* (generate_vlan_configurations / generate_csv), the document splicer     *)
(* (modify_xml_config) and full-config assembly                            *)
(* (generate_opnsense_config).                                             *)
(*                                                                         *)
(* Strings are sequences of one-character strings, so that formatting,     *)
(* escaping and replacing are computed character by character.             *)
(***************************************************************************)
EXTENDS Integers, Sequences, FiniteSets, TLC

(***************************************************************************)
(* Bounds.  The VLAN id range of the program is [10, 4094]; the model      *)
(* keeps the lower end and scales the upper end down, and the practical    *)
(* maximum count follows it the way 4084 = 4094 - 10 does in the source.   *)
(***************************************************************************)
VlanMax == 12
MaxThird == 1
MaxHost == 2
MaxDept == 1

VLAN_MIN == 10
MAX_VLAN_COUNT == VlanMax - VLAN_MIN
WAN1_ID == 1
WAN2_ID == 2
WAN3_ID == 3

VlanDomain_FromNine == (VLAN_MIN - 1)..VlanMax

VlanDomain == VLAN_MIN..VlanMax
WanDomain == WAN1_ID..WAN3_ID

(***************************************************************************)
(* Decimal formatting of a natural number, as str(int) / an f-string does. *)
(***************************************************************************)
DigitChar(d) == <<"0", "1", "2", "3", "4", "5", "6", "7", "8", "9">>[d + 1]

RECURSIVE Digits(_)
Digits(n) == IF n < 10 THEN <<DigitChar(n)>>
             ELSE Digits(n \div 10) \o <<DigitChar(n % 10)>>

(***************************************************************************)
(* fake.ipv4_private(): an address of a private block.                     *)
(***************************************************************************)
PrivateIPs == {<<b[1], b[2], c, h>> : b \in {<<10, 0>>, <<192, 168>>},
                                     c \in 0..MaxThird, h \in 1..MaxHost}

\* octets[0].octets[1].octets[2].x
NetworkBase(ip) == Digits(ip[1]) \o <<".">> \o Digits(ip[2]) \o <<".">>
                   \o Digits(ip[3]) \o <<".", "x">>

DepartmentNames ==
    << <<"S","a","l","e","s">>, <<"I","T">>, <<"H","R">>,
       <<"F","i","n","a","n","c","e">>,
       <<"M","a","r","k","e","t","i","n","g">>,
       <<"O","p","e","r","a","t","i","o","n","s">>,
       <<"E","n","g","i","n","e","e","r","i","n","g">>,
       <<"S","u","p","p","o","r","t">>, <<"A","d","m","i","n">>,
       <<"G","u","e","s","t">>, <<"L","a","b">>, <<"T","e","s","t">> >>

\* the elements fake.random_element draws from, cut to the first MaxDept
Departments == {DepartmentNames[k] : k \in 1..MaxDept}

VLANConfig(v, nb, d, w) ==
    [vlan_id |-> v, ip_network |-> nb, description |-> d, wan_assignment |-> w]

CsvHeader == <<"VLAN", "IP Range", "Beschreibung", "WAN">>

(***************************************************************************)
(* XML.  An element is a record [tag, text, children]; text is the         *)
(* character data right after the opening tag (<<>> when there is none).   *)
(* A file holds the serialized form: character data is escaped in it, and  *)
(* pretty-printing whitespace is present.                                  *)
(***************************************************************************)
El(tag, text, children) == [tag |-> tag, text |-> text, children |-> children]

HasPrefix(s, p) == Len(s) >= Len(p) /\ SubSeq(s, 1, Len(p)) = p

\* the predefined entity references of XML
Entities ==
    { [ref |-> <<"&","a","m","p",";">>, char |-> "&"],
      [ref |-> <<"&","l","t",";">>, char |-> "<"],
      [ref |-> <<"&","g","t",";">>, char |-> ">"],
      [ref |-> <<"&","q","u","o","t",";">>, char |-> "\""],
      [ref |-> <<"&","a","p","o","s",";">>, char |-> "'"] }

\* character data the parser accepts: no raw "<", every "&" starts a reference
RECURSIVE TextWellFormed(_)
TextWellFormed(s) ==
    IF s = <<>> THEN TRUE
    ELSE IF Head(s) = "<" THEN FALSE
    ELSE IF Head(s) = "&"
         THEN \E ent \in Entities :
                  /\ HasPrefix(s, ent.ref)
                  /\ TextWellFormed(SubSeq(s, Len(ent.ref) + 1, Len(s)))
    ELSE TextWellFormed(Tail(s))

\* the parser's replacement of entity references in well-formed data
RECURSIVE Unescape(_)
Unescape(s) ==
    IF s = <<>> THEN <<>>
    ELSE IF Head(s) = "&"
         THEN LET ent == CHOOSE e \in Entities : HasPrefix(s, e.ref)
              IN <<ent.char>> \o Unescape(SubSeq(s, Len(ent.ref) + 1, Len(s)))
    ELSE <<Head(s)>> \o Unescape(Tail(s))

\* the serializer's escaping of character data
RECURSIVE EscapeText(_)
EscapeText(s) ==
    IF s = <<>> THEN <<>>
    ELSE (CASE Head(s) = "&" -> <<"&","a","m","p",";">>
            [] Head(s) = "<" -> <<"&","l","t",";">>
            [] Head(s) = ">" -> <<"&","g","t",";">>
            [] OTHER -> <<Head(s)>>) \o EscapeText(Tail(s))

Blank(s) == \A k \in 1..Len(s) : s[k] \in {" ", "\n"}

RECURSIVE ElementWellFormed(_)
ElementWellFormed(e) ==
    /\ TextWellFormed(e.text)
    /\ \A k \in 1..Len(e.children) : ElementWellFormed(e.children[k])

RECURSIVE UnescapeTree(_)
UnescapeTree(e) ==
    El(e.tag, Unescape(e.text),
       [k \in 1..Len(e.children) |-> UnescapeTree(e.children[k])])

RECURSIVE EscapeTree(_)
EscapeTree(e) ==
    El(e.tag, EscapeText(e.text),
       [k \in 1..Len(e.children) |-> EscapeTree(e.children[k])])

\* XMLParser(remove_blank_text=True): whitespace-only character data in
\* front of a child element is dropped
RECURSIVE StripBlank(_)
StripBlank(e) ==
    El(e.tag,
       IF e.children # <<>> /\ Blank(e.text) THEN <<>> ELSE e.text,
       [k \in 1..Len(e.children) |-> StripBlank(e.children[k])])

PrettyIndent == <<"\n", " ", " ">>

\* pretty_print=True: indentation is added inside an element that has
\* children and no character data of its own
RECURSIVE Pretty(_)
Pretty(e) ==
    El(e.tag,
       IF e.children # <<>> /\ e.text = <<>> THEN PrettyIndent ELSE e.text,
       [k \in 1..Len(e.children) |-> Pretty(e.children[k])])

\* a file that holds a document: wf is FALSE when it does not parse
DocFile(root) == [wf |-> TRUE, root |-> root]
MalformedDoc == [wf |-> FALSE, root |-> El("", <<>>, <<>>)]
\* what a write that failed part-way leaves behind
TruncatedDoc == [wf |-> FALSE, root |-> El("", <<"\n">>, <<>>)]

\* etree.parse(str(input_xml), parser).getroot()
ParseDoc(file) == StripBlank(UnescapeTree(file.root))

\* tree.write(..., pretty_print=True, xml_declaration=True, encoding="utf-8")
Serialize(tree) == DocFile(EscapeTree(Pretty(tree)))

\* a fragment file: exists or not, and the sibling elements written in it
FragFile(elems) == [exists |-> TRUE, elems |-> elems]
NoFile == [exists |-> FALSE, elems |-> <<>>]

\* etree.fromstring(f"<root>{replacement_content}</root>") succeeds
FragmentWellFormed(file) ==
    \A k \in 1..Len(file.elems) : ElementWellFormed(file.elems[k])

\* the children of the synthetic root
ParseFragment(file) ==
    [k \in 1..Len(file.elems) |-> UnescapeTree(file.elems[k])]

(***************************************************************************)
(* root.find(tag_path) for a path "./t1/t2/...": tag_path is <<t1, t2,..>> *)
(* and the result is the index path of the first match in document order.  *)
(***************************************************************************)
RECURSIVE FindAll(_, _), FindFrom(_, _, _)
FindAll(e, steps) ==
    IF steps = <<>> THEN << <<>> >> ELSE FindFrom(e, steps, 1)

FindFrom(e, steps, i) ==
    IF i > Len(e.children) THEN <<>>
    ELSE (IF e.children[i].tag = Head(steps)
          THEN LET below == FindAll(e.children[i], Tail(steps))
               IN [k \in 1..Len(below) |-> <<i>> \o below[k]]
          ELSE <<>>) \o FindFrom(e, steps, i + 1)

Find_FallBackToRoot(root, steps) ==
    LET all == FindAll(root, steps)
    IN IF all = <<>> THEN [found |-> TRUE, at |-> <<>>]
       ELSE [found |-> TRUE, at |-> all[1]]
Find_LastMatch(root, steps) ==
    LET all == FindAll(root, steps)
    IN IF all = <<>> THEN [found |-> FALSE, at |-> <<>>]
       ELSE [found |-> TRUE, at |-> all[Len(all)]]


Find(root, steps) ==
    LET all == FindAll(root, steps)
    IN IF all = <<>> THEN [found |-> FALSE, at |-> <<>>]
       ELSE [found |-> TRUE, at |-> all[1]]

RECURSIVE GetAt(_, _)
GetAt(e, at) == IF at = <<>> THEN e ELSE GetAt(e.children[Head(at)], Tail(at))

RECURSIVE SetAt(_, _, _)
SetAt(e, at, new) ==
    IF at = <<>> THEN new
    ELSE [e EXCEPT !.children[Head(at)] = SetAt(@, Tail(at), new)]

TargetIndent == <<"\n", " ", " ", " ", " ">>

ClearElement_KeepChildren(e) == [e EXCEPT !.text = TargetIndent]

\* remove every child of the target and set its text to the indentation
ClearElement(e) == El(e.tag, TargetIndent, <<>>)

\* target_elem.append(elem) for each child of the parsed fragment
AppendElements(e, elems) == [e EXCEPT !.children = @ \o elems]

(***************************************************************************)
(* escape_xml_string: xml.sax.saxutils.escape replaces "&", ">", "<" in    *)
(* that order, then each key of the entities dict in dict order.           *)
(***************************************************************************)
RECURSIVE Replace(_, _, _)
Replace(s, old, new) ==
    IF s = <<>> THEN <<>>
    ELSE IF HasPrefix(s, old)
         THEN new \o Replace(SubSeq(s, Len(old) + 1, Len(s)), old, new)
    ELSE <<Head(s)>> \o Replace(Tail(s), old, new)

\* the table without its last entry
EscapeEntities_NoSlash ==
    << <<<<"ä">>, <<"a","e">>>>, <<<<"ö">>, <<"o","e">>>>, <<<<"ü">>, <<"u","e">>>>, <<<<"ß">>, <<"s","s">>>>,
       <<<<"Ä">>, <<"A","E">>>>, <<<<"Ö">>, <<"O","E">>>>, <<<<"Ü">>, <<"U","E">>>>,
       <<<<" ">>, <<>>>>, <<<<"-">>, <<"_">>>> >>

EscapeEntities ==
    << <<<<"ä">>, <<"a","e">>>>, <<<<"ö">>, <<"o","e">>>>, <<<<"ü">>, <<"u","e">>>>, <<<<"ß">>, <<"s","s">>>>,
       <<<<"Ä">>, <<"A","E">>>>, <<<<"Ö">>, <<"O","E">>>>, <<<<"Ü">>, <<"U","E">>>>,
       <<<<" ">>, <<>>>>, <<<<"-">>, <<"_">>>>, <<<<"/">>, <<"_">>>> >>

\* str(n)
Str(n) == IF n < 0 THEN <<"-">> \o Digits(-n) ELSE Digits(n)

\* str.strip()
RECURSIVE Strip(_)
Strip(s) ==
    LET Whitespace == {" ", "\t", "\n", "\r"}
    IN IF s = <<>> THEN s
       ELSE IF Head(s) \in Whitespace THEN Strip(Tail(s))
       ELSE IF s[Len(s)] \in Whitespace THEN Strip(SubSeq(s, 1, Len(s) - 1))
       ELSE s

RECURSIVE DictReplace(_, _, _)
DictReplace(s, d, k) ==
    IF k > Len(d) THEN s
    ELSE DictReplace(Replace(s, d[k][1], d[k][2]), d, k + 1)

escape_xml_string(s) ==
    DictReplace(Replace(Replace(Replace(s, <<"&">>, <<"&","a","m","p",";">>), <<">">>, <<"&","g","t",";">>),
                        <<"<">>, <<"&","l","t",";">>),
                EscapeEntities, 1)

\* BaseModelFactory._escape_xml_string: `for old, new in replacements.items():
\* text = text.replace(old, new)` over the same table
_escape_xml_string(text) == DictReplace(text, EscapeEntities, 1)

(***************************************************************************)
(* The fragment renderers.  Each returns the sibling elements it writes,   *)
(* with the character data exactly as written (escaped or not).  uuid      *)
(* attributes are not part of an element here, and the clock value and the *)
(* CARP password are fixed placeholders.                                   *)
(***************************************************************************)
Leaf(tag, text) == El(tag, text, <<>>)
Empties(tags) == [k \in 1..Len(tags) |-> Leaf(tags[k], <<>>)]

\* options.get(key, default)
Get(d, key, default) == IF key \in DOMAIN d THEN d[key] ELSE default

\* the default options with the fallback of the renderers as the index
DefaultOptions_FromOne ==
    [firewallNr |-> 1, opt_counter |-> 1, wan1 |-> <<"1","0",".","1","1",".","1","2",".","1","1">>,
     wan2 |-> <<"1","0",".","1","1",".","1","2",".","1","2">>, wan3 |-> <<"1","0",".","1","1",".","1","2",".","1","3">>]

\* the options generate_opnsense_config uses when it is passed none
DefaultOptions ==
    [firewallNr |-> 1, opt_counter |-> 6, wan1 |-> <<"1","0",".","1","1",".","1","2",".","1","1">>,
     wan2 |-> <<"1","0",".","1","1",".","1","2",".","1","2">>, wan3 |-> <<"1","0",".","1","1",".","1","2",".","1","3">>]

OptTag(n) == "opt" \o ToString(n)
OptText(n) == <<"o", "p", "t">> \o Digits(n)

FormattedTimestamp == <<"0",".","0","0","0","0">>
RandomPassword == <<"p","4","s","s","w","0","r","d">>

Stamp(tag) ==
    El(tag, <<"\n"," "," "," "," ">>,
       << Leaf("username", <<"r","o","o","t","@","1","0",".","1",".","1",".","1">>),
          Leaf("time", FormattedTimestamp),
          Leaf("description", <<"O","P","N","s","e","n","s","e"," ","C","o","n","f","i","g"," ","F","a","k","e","r"," ","g","e","n","e","r","a","t","e","d">>) >>)

AnyBlock(tag) == El(tag, <<"\n"," "," "," "," ">>, << Leaf("any", <<"1">>) >>)

\* the same element with the address suffix of firewall 1 for every firewall
InterfaceElement_FixedSuffix(config, opt_counter, ip_suffix) ==
    El(OptTag(opt_counter), <<"\n"," "," ">>,
       << Leaf("if", <<"v","l","a","n","0">> \o Digits(config.vlan_id)),
          Leaf("descr", <<"V">> \o Digits(config.vlan_id) \o <<"_">>
                        \o escape_xml_string(config.description)),
          Leaf("enable", <<"1">>),
          Leaf("spoofmac", <<>>),
          Leaf("ipaddr", Replace(config.ip_network, <<".","x">>,
                                 <<".","2","5","1">>)),
          Leaf("subnet", <<"2","4">>) >>)

\* generate_interface_xml: one <optN> per record
InterfaceElement(config, opt_counter, ip_suffix) ==
    El(OptTag(opt_counter), <<"\n"," "," ">>,
       << Leaf("if", <<"v","l","a","n","0">> \o Digits(config.vlan_id)),
          Leaf("descr", <<"V">> \o Digits(config.vlan_id) \o <<"_">>
                        \o escape_xml_string(config.description)),
          Leaf("enable", <<"1">>),
          Leaf("spoofmac", <<>>),
          Leaf("ipaddr", Replace(config.ip_network, <<".","x">>,
                                 <<".">> \o Digits(ip_suffix))),
          Leaf("subnet", <<"2","4">>) >>)

generate_interface_xml(cfgs, options) ==
    LET opt_counter == Get(options, "opt_counter", 1)
        firewall_number == Get(options, "firewallNr", 1)
        ip_suffix == 250 + firewall_number
    IN [k \in 1..Len(cfgs) |->
          InterfaceElement(cfgs[k], opt_counter + (k - 1), ip_suffix)]

\* generate_dhcp_xml: one <optN> per record
DhcpElement(config, opt_counter) ==
    LET ip_range_base == Replace(config.ip_network, <<".","x">>, <<>>)
    IN El(OptTag(opt_counter), <<"\n"," "," ">>,
          << Leaf("enable", <<"1">>),
             Leaf("failover_peerip", ip_range_base \o <<".","2","5","2">>),
             Leaf("gateway", ip_range_base \o <<".","2","5","4">>),
             Leaf("ddnsdomainalgorithm", <<"h","m","a","c","-","m","d","5">>),
             El("numberoptions", <<"\n"," "," "," "," ">>, << Leaf("item", <<>>) >>),
             El("range", <<"\n"," "," "," "," ">>,
                << Leaf("from", ip_range_base \o <<".","1">>),
                   Leaf("to", ip_range_base \o <<".","1","0","0">>) >>),
             Leaf("winsserver", <<>>),
             Leaf("dnsserver", ip_range_base \o <<".","2","5","4">>),
             Leaf("ntpserver", <<>>) >>)

generate_dhcp_xml(cfgs, options) ==
    LET opt_counter == Get(options, "opt_counter", 1)
    IN [k \in 1..Len(cfgs) |-> DhcpElement(cfgs[k], opt_counter + (k - 1))]

\* generate_rules_xml: one <rule> per record
RulesElement(config, opt_counter) ==
    El("rule", <<"\n"," "," ">>,
       << Leaf("type", <<"p","a","s","s">>),
          Leaf("interface", OptText(opt_counter)),
          Leaf("ipprotocol", <<"i","n","e","t">>),
          Leaf("statetype", <<"k","e","e","p"," ","s","t","a","t","e">>),
          Leaf("descr", <<"d","e","f","a","u","l","t"," ","a","l","l","o","w"," ","V","L","A","N","_">> \o Digits(config.vlan_id)
                        \o <<" ","a","n","y">>),
          Leaf("direction", <<"i","n">>),
          Leaf("quick", <<"1">>),
          AnyBlock("source"),
          AnyBlock("destination"),
          Stamp("updated"),
          Stamp("created") >>)

generate_rules_xml(cfgs, options) ==
    LET opt_counter == Get(options, "opt_counter", 1)
    IN [k \in 1..Len(cfgs) |-> RulesElement(cfgs[k], opt_counter + (k - 1))]

\* the if / elif chain over WAN1_ID, WAN2_ID, WAN3_ID; "" when none matches
WanIp(wan_assignment, options) ==
    IF wan_assignment = WAN1_ID THEN Get(options, "wan1", <<"8","0",".","2","0","0",".","1","0",".","1","1">>)
    ELSE IF wan_assignment = WAN2_ID THEN Get(options, "wan2", <<"8","0",".","2","0","0",".","1","0",".","1","2">>)
    ELSE IF wan_assignment = WAN3_ID THEN Get(options, "wan3", <<"8","0",".","2","0","0",".","1","0",".","1","3">>)
    ELSE <<>>

NatElement(config, opt_counter, options) ==
    El("rule", <<"\n"," "," ">>,
       << El("source", <<"\n"," "," "," "," ">>, << Leaf("network", OptText(opt_counter)) >>),
          AnyBlock("destination"),
          Leaf("descr", config.description) >>
       \o Empties(<<"category">>)
       \o << Leaf("interface", <<"w","a","n">>) >>
       \o Empties(<<"tag", "tagged", "poolopts", "poolopts_sourcehashkey">>)
       \o << Leaf("ipprotocol", <<"i","n","e","t">>),
             Stamp("created"),
             Leaf("target", WanIp(config.wan_assignment, options)),
             Leaf("sourceport", <<>>),
             Stamp("updated") >>)

\* the same renderer counting from 1 whatever the options say
generate_nat_xml_FromOne(cfgs, options) ==
    << Leaf("mode", <<"a","d","v","a","n","c","e","d">>) >>
       \o [k \in 1..Len(cfgs) |-> NatElement(cfgs[k], k, options)]

\* generate_nat_xml: <mode>advanced</mode>, then one <rule> per record
generate_nat_xml(cfgs, options) ==
    LET opt_counter == Get(options, "opt_counter", 1)
    IN << Leaf("mode", <<"a","d","v","a","n","c","e","d">>) >>
       \o [k \in 1..Len(cfgs) |->
             NatElement(cfgs[k], opt_counter + (k - 1), options)]

CarpElement(config, opt_counter, advskew) ==
    El("vip", <<"\n"," "," "," "," ">>,
       << Leaf("interface", OptText(opt_counter)),
          Leaf("mode", <<"c","a","r","p">>),
          Leaf("subnet", Replace(config.ip_network, <<".","x">>, <<".","2","5","4">>)),
          Leaf("subnet_bits", <<"2","4">>),
          Leaf("gateway", <<>>),
          Leaf("noexpand", <<"0">>),
          Leaf("nobind", <<"0">>),
          Leaf("password", RandomPassword),
          Leaf("vhid", Digits(config.vlan_id)),
          Leaf("advbase", <<"1">>),
          Leaf("advskew", advskew),
          Leaf("descr", config.description) >>)

\* the same renderer with the skew taken from the position of the record
generate_carp_xml_SkewPerRecord(cfgs, options) ==
    LET opt_counter == Get(options, "opt_counter", 1)
        firewall_number == Get(options, "firewallNr", 1)
    IN [k \in 1..Len(cfgs) |->
          CarpElement(cfgs[k], opt_counter + (k - 1),
                      IF firewall_number = 1 /\ k = 1 THEN <<"0">> ELSE <<"1","0","0">>)]

\* generate_carp_xml: one <vip> per record
generate_carp_xml(cfgs, options) ==
    LET opt_counter == Get(options, "opt_counter", 1)
        firewall_number == Get(options, "firewallNr", 1)
        advskew == IF firewall_number = 1 THEN <<"0">> ELSE <<"1","0","0">>
    IN [k \in 1..Len(cfgs) |->
          CarpElement(cfgs[k], opt_counter + (k - 1), advskew)]

VlanElement(config) ==
    El("vlan", <<"\n"," "," "," "," "," "," ">>,
       << Leaf("if", <<"l","a","g","g","0">>),
          Leaf("tag", Digits(config.vlan_id)),
          Leaf("pcp", <<"0">>),
          Leaf("proto", <<>>),
          Leaf("descr", config.description),
          Leaf("vlanif", <<"v","l","a","n","0">> \o Digits(config.vlan_id)) >>)

\* the same renderer going through the records from the last to the first
generate_vlan_xml_Reversed(cfgs) ==
    [k \in 1..Len(cfgs) |-> VlanElement(cfgs[Len(cfgs) + 1 - k])]

\* generate_vlan_xml: one <vlan> per record
generate_vlan_xml(cfgs) == [k \in 1..Len(cfgs) |-> VlanElement(cfgs[k])]

RadiusUserElement(config) ==
    El("user", <<"\n"," "," "," "," "," "," "," "," "," "," ">>,
       << Leaf("enabled", <<"1">>),
          Leaf("username", <<"t","o","p">> \o Digits(config.vlan_id)),
          Leaf("password", escape_xml_string(config.description)),
          Leaf("description", config.description) >>
       \o Empties(<<"ip", "subnet", "route", "ip6">>)
       \o << Leaf("vlan", Digits(config.vlan_id)) >>
       \o Empties(<<"logintime", "simuse", "exos_vlan_untagged",
                    "exos_vlan_tagged", "exos_policy", "wispr_bw_min_up",
                    "wispr_bw_max_up", "wispr_bw_min_down",
                    "wispr_bw_max_down", "chillispot_bw_max_up",
                    "chillispot_bw_max_down", "mikrotik_vlan_id_number",
                    "mikrotik_vlan_id_type", "sessionlimit_max_session_limit",
                    "servicetype", "linkedAVPair">>))

\* generate_radius_user_xml: one <user> per record
generate_radius_user_xml(cfgs) ==
    [k \in 1..Len(cfgs) |-> RadiusUserElement(cfgs[k])]

\* legacy genNAT.generate_xml_from_csv after next(reader), on rows of four
\* fields: the elements written to output_file and the exception raised.
\* The file is opened for writing before the first row is looked at, and
\* the rule of a row is written before the next row is.
generate_xml_from_csv(rows, options) ==
    LET opt_counter == Get(options, "opt_counter", 1)
        HTML_ENTITY_MAPPINGS ==
            << << <<"ä">>, <<"&","#","x","E","4",";">> >>, << <<"ö">>, <<"&","#","x","F","6",";">> >>,
               << <<"ü">>, <<"&","#","x","F","C",";">> >>, << <<"ß">>, <<"&","#","x","D","F",";">> >>,
               << <<"Ä">>, <<"&","#","x","C","4",";">> >>, << <<"Ö">>, <<"&","#","x","D","6",";">> >>,
               << <<"Ü">>, <<"&","#","x","D","C",";">> >> >>
        escape_string(s) ==
            DictReplace(Replace(Replace(Replace(s, <<"&">>, <<"&","a","m","p",";">>),
                                        <<">">>, <<"&","g","t",";">>),
                                <<"<">>, <<"&","l","t",";">>),
                        HTML_ENTITY_MAPPINGS, 1)
        wan(row) == Strip(row[4])
        wan_ip(row) ==
            CASE wan(row) = <<"1">> -> Get(options, "wan1", <<"8","0",".","2","0","0",".","1","0",".","1","1">>)
              [] wan(row) = <<"2">> -> Get(options, "wan2", <<"8","0",".","2","0","0",".","1","0",".","1","2">>)
              [] wan(row) = <<"3">> -> Get(options, "wan3", <<"8","0",".","2","0","0",".","1","0",".","1","3">>)
        stamp(tag) ==
            El(tag, <<"\n"," "," "," "," ">>,
               << Leaf("username", <<"r","o","o","t","@","1","0",".","1",".","1",".","1">>),
                  Leaf("time", FormattedTimestamp),
                  Leaf("description", <<"g","e","n","N","A","T",".","p","y"," ","m","a","d","e"," ","c","h","a","n","g","e","s">>) >>)
        rule(row, n) ==
            El("rule", <<"\n"," "," ">>,
               << El("source", <<"\n"," "," "," "," ">>, << Leaf("network", OptText(n)) >>),
                  AnyBlock("destination"),
                  Leaf("descr", escape_string(Strip(row[3]))) >>
               \o Empties(<<"category">>)
               \o << Leaf("interface", <<"w","a","n">>) >>
               \o Empties(<<"tag", "tagged", "poolopts", "poolopts_sourcehashkey">>)
               \o << Leaf("ipprotocol", <<"i","n","e","t">>),
                     stamp("created"),
                     Leaf("target", wan_ip(row)),
                     Leaf("sourceport", <<>>),
                     stamp("updated") >>)
        \* `case _: raise ValueError`
        invalid == {k \in 1..Len(rows) : wan(rows[k]) \notin {<<"1">>, <<"2">>, <<"3">>}}
        written == IF invalid = {} THEN Len(rows)
                   ELSE (CHOOSE k \in invalid : \A j \in invalid : k <= j) - 1
    IN [elems |-> [k \in 1..written |-> rule(rows[k], opt_counter + (k - 1))],
        error |-> IF invalid = {} THEN "none" ELSE "ValueError"]

\* the same list with DHCP and NAT exchanged
Modules_Swapped ==
    << [order |-> 1, part_name |-> "Interface", tag_path |-> <<"interfaces">>],
       [order |-> 3, part_name |-> "NAT", tag_path |-> <<"nat", "outbound">>],
       [order |-> 2, part_name |-> "DHCP", tag_path |-> <<"dhcpd">>],
       [order |-> 4, part_name |-> "Rules", tag_path |-> <<"filter">>],
       [order |-> 5, part_name |-> "CARP", tag_path |-> <<"virtualip">>],
       [order |-> 6, part_name |-> "VLAN", tag_path |-> <<"vlans">>],
       [order |-> 7, part_name |-> "RadiusUser",
        tag_path |-> <<"OPNsense", "freeradius", "user", "users">>] >>
\* the same list with the NAT part spliced into ./interfaces
Modules_SharedPath ==
    << [order |-> 1, part_name |-> "Interface", tag_path |-> <<"interfaces">>],
       [order |-> 2, part_name |-> "DHCP", tag_path |-> <<"dhcpd">>],
       [order |-> 3, part_name |-> "NAT", tag_path |-> <<"interfaces">>],
       [order |-> 4, part_name |-> "Rules", tag_path |-> <<"filter">>],
       [order |-> 5, part_name |-> "CARP", tag_path |-> <<"virtualip">>],
       [order |-> 6, part_name |-> "VLAN", tag_path |-> <<"vlans">>],
       [order |-> 7, part_name |-> "RadiusUser",
        tag_path |-> <<"OPNsense", "freeradius", "user", "users">>] >>


\* the modules list of generate_opnsense_config
Modules ==
    << [order |-> 1, part_name |-> "Interface", tag_path |-> <<"interfaces">>],
       [order |-> 2, part_name |-> "DHCP", tag_path |-> <<"dhcpd">>],
       [order |-> 3, part_name |-> "NAT", tag_path |-> <<"nat", "outbound">>],
       [order |-> 4, part_name |-> "Rules", tag_path |-> <<"filter">>],
       [order |-> 5, part_name |-> "CARP", tag_path |-> <<"virtualip">>],
       [order |-> 6, part_name |-> "VLAN", tag_path |-> <<"vlans">>],
       [order |-> 7, part_name |-> "RadiusUser",
        tag_path |-> <<"OPNsense", "freeradius", "user", "users">>] >>

\* module_info["generator"](configs, xml_file[, options])
RunGenerator(part_name, cfgs, options) ==
    CASE part_name = "Interface" -> generate_interface_xml(cfgs, options)
      [] part_name = "DHCP" -> generate_dhcp_xml(cfgs, options)
      [] part_name = "NAT" -> generate_nat_xml(cfgs, options)
      [] part_name = "Rules" -> generate_rules_xml(cfgs, options)
      [] part_name = "CARP" -> generate_carp_xml(cfgs, options)
      [] part_name = "VLAN" -> generate_vlan_xml(cfgs)
      [] part_name = "RadiusUser" -> generate_radius_user_xml(cfgs)

VARIABLES
    entry,          \* which generator entry point runs
    count,          \* its count / num_records argument
    pc,             \* position in the generator
    configs,        \* list built by generate_vlan_configurations
    used_vlans,
    used_networks,
    vlan_id,        \* the VLAN id drawn last
    warnings,       \* number of stderr warnings printed
    error,          \* exception raised to the caller, "none" if none
    csv_file0,      \* output file of generate_csv before the call
    csv_file        \* output file of generate_csv: "absent" or its rows

genvars == <<entry, count, pc, configs, used_vlans, used_networks, vlan_id,
             warnings, error, csv_file0, csv_file>>

VARIABLES
    lxml_available, \* whether the lxml import succeeded
    doc,            \* the file input_xml names (final_config in assembly)
    doc0,           \* that file when modify_xml_config was called
    tag_path,
    file_names,     \* the fragment files to inject, as keys of frag_files
    frag_files,     \* the fragment files on disk
    s_pc,           \* position in modify_xml_config
    tree,           \* the parsed document in memory
    target,         \* result of root.find(tag_path)
    fi,             \* index of the next entry of file_names
    s_error         \* the exception modify_xml_config raised

splicevars == <<lxml_available, doc, doc0, tag_path, file_names, frag_files,
                s_pc, tree, target, fi, s_error>>

VARIABLES
    a_pc,           \* position in generate_opnsense_config
    a_k,            \* index into modules of the running loop
    a_configs,      \* its configs argument
    a_options,      \* its options argument: [given, dict]
    base_config,    \* the base document file
    base0,          \* the base document file at the call
    log,            \* the steps performed, in order
    a_error,        \* the exception raised to the caller
    a_result        \* the path returned

asmvars == <<a_pc, a_k, a_configs, a_options, base_config, base0, log,
             a_error, a_result>>

VARIABLES
    r_configs,      \* the configs argument of the fragment renderers
    r_options,      \* their options argument
    r_files,        \* the output file of each renderer
    r_error         \* the exception each renderer raised, "none" if none

rendervars == <<r_configs, r_options, r_files, r_error>>

VARIABLES
    esc_fn,         \* which escape function is applied
    esc_in,         \* the argument of its first call
    esc_text,       \* the value returned last (the argument before a call)
    esc_calls       \* how many times the function was applied

escvars == <<esc_fn, esc_in, esc_text, esc_calls>>

VARIABLES
    t_entry,        \* what is called on the CSV file
    t_pc,           \* the call that comes next
    t_configs,      \* the configs argument of save_to_csv
    t_file,         \* the CSV file: [exists, text]
    t_loaded,       \* what load_from_csv returned
    t_error         \* the exception raised to the caller

csvvars == <<t_entry, t_pc, t_configs, t_file, t_loaded, t_error>>

VARIABLES
    f_configs,      \* the configs argument of create_from_vlan_configs
    f_options,      \* its options argument
    f_result        \* the InterfacesModel it returned: [returned, interfaces]

factoryvars == <<f_configs, f_options, f_result>>

VARIABLES
    o_base,         \* the base document copied to final_config
    o_files,        \* the part files the renderers wrote, by module index
    o_doc,          \* final_config
    o_prev,         \* final_config before the last modify_xml_config call
    o_applied,      \* the modules whose part file has been spliced
    o_last,         \* the module spliced last, 0 before the first
    o_twice,        \* the last call repeated the call before it
    o_error         \* the exception modify_xml_config raised

ordervars == <<o_base, o_files, o_doc, o_prev, o_applied, o_last, o_twice,
               o_error>>

fnvars == <<rendervars, escvars, csvvars, factoryvars, ordervars>>

vars == <<genvars, splicevars, asmvars, fnvars>>

NoElement == El("", <<>>, <<>>)
NoError == [kind |-> "none", cause |-> "none"]
NotFound == [found |-> FALSE, at |-> <<>>]

GenIdle ==
    /\ entry = "none"
    /\ count = 0
    /\ pc = "idle"
    /\ configs = <<>>
    /\ used_vlans = {}
    /\ used_networks = {}
    /\ vlan_id = 0
    /\ warnings = 0
    /\ error = "none"
    /\ csv_file0 = "absent"
    /\ csv_file = "absent"

SpliceIdle ==
    /\ lxml_available = TRUE
    /\ doc = MalformedDoc
    /\ doc0 = MalformedDoc
    /\ tag_path = <<>>
    /\ file_names = <<>>
    /\ frag_files = <<>>
    /\ s_pc = "idle"
    /\ tree = NoElement
    /\ target = NotFound
    /\ fi = 1
    /\ s_error = NoError

AsmIdle ==
    /\ a_pc = "idle"
    /\ a_k = 1
    /\ a_configs = <<>>
    /\ a_options = [given |-> FALSE, dict |-> DefaultOptions]
    /\ base_config = MalformedDoc
    /\ base0 = MalformedDoc
    /\ log = <<>>
    /\ a_error = NoError
    /\ a_result = "none"

\* the renderers, the escape functions, the CSV functions and the interface
\* factory before a call; the subsystem named by running is left to the
\* caller
FnIdle(running) ==
    /\ IF running = "render" THEN TRUE
       ELSE /\ r_configs = <<>>
            /\ r_options = DefaultOptions
            /\ r_files = <<>>
            /\ r_error = <<>>
    /\ IF running = "escape" THEN TRUE
       ELSE /\ esc_fn = "none"
            /\ esc_in = <<>>
            /\ esc_text = <<>>
            /\ esc_calls = 0
    /\ IF running = "csv" THEN TRUE
       ELSE /\ t_entry = "none"
            /\ t_pc = "idle"
            /\ t_configs = <<>>
            /\ t_file = [exists |-> FALSE, text |-> <<>>]
            /\ t_loaded = [returned |-> FALSE, list |-> <<>>]
            /\ t_error = NoError
    /\ IF running = "factory" THEN TRUE
       ELSE /\ f_configs = <<>>
            /\ f_options = DefaultOptions
            /\ f_result = [returned |-> FALSE, interfaces |-> <<>>]
    /\ IF running = "order" THEN TRUE
       ELSE /\ o_base = MalformedDoc
            /\ o_files = <<>>
            /\ o_doc = MalformedDoc
            /\ o_prev = MalformedDoc
            /\ o_applied = {}
            /\ o_last = 0
            /\ o_twice = FALSE
            /\ o_error = NoError

OldCsv == <<CsvHeader, <<"old">>>>

GenInit ==
    /\ entry \in {"generate_vlan_configurations", "generate_csv"}
    /\ count \in (-1)..(MAX_VLAN_COUNT + 2)
    /\ pc = "entry"
    /\ configs = <<>>
    /\ used_vlans = {}
    /\ used_networks = {}
    /\ vlan_id = 0
    /\ warnings = 0
    /\ error = "none"
    /\ csv_file0 \in {"absent", OldCsv}
    /\ csv_file = csv_file0
    /\ SpliceIdle
    /\ AsmIdle
    /\ FnIdle("none")

\* opens (truncates) the output file of generate_csv before validating
Validate_OpenFirst ==
    /\ pc = "entry"
    /\ csv_file' = IF entry = "generate_csv" THEN <<CsvHeader>> ELSE csv_file
    /\ IF count < 1
       THEN /\ error' = "ValueError"
            /\ pc' = "failed"
            /\ UNCHANGED warnings
       ELSE /\ warnings' = IF count > MAX_VLAN_COUNT THEN warnings + 1 ELSE warnings
            /\ pc' = IF entry = "generate_csv" THEN "open" ELSE "vlan"
            /\ UNCHANGED error
    /\ UNCHANGED <<entry, count, configs, used_vlans, used_networks, vlan_id,
                   csv_file0>>
    /\ UNCHANGED <<splicevars, asmvars, fnvars>>

\* count < 1 is rejected before anything else; count > MAX_VLAN_COUNT warns.
Validate ==
    /\ pc = "entry"
    /\ IF count < 1
       THEN /\ error' = "ValueError"
            /\ pc' = "failed"
            /\ UNCHANGED warnings
       ELSE /\ warnings' = IF count > MAX_VLAN_COUNT THEN warnings + 1 ELSE warnings
            /\ pc' = IF entry = "generate_csv" THEN "open" ELSE "vlan"
            /\ UNCHANGED error
    /\ UNCHANGED <<entry, count, configs, used_vlans, used_networks, vlan_id,
                   csv_file0, csv_file>>
    /\ UNCHANGED <<splicevars, asmvars, fnvars>>

\* generate_csv: Path(filename).open(mode="w") and the header row
OpenCsv ==
    /\ pc = "open"
    /\ csv_file' = <<CsvHeader>>
    /\ pc' = "vlan"
    /\ UNCHANGED <<entry, count, configs, used_vlans, used_networks, vlan_id,
                   warnings, error, csv_file0>>
    /\ UNCHANGED <<splicevars, asmvars, fnvars>>

\* the open raises OSError: wrapped into ConfigGenerationError
OpenCsvFails ==
    /\ pc = "open"
    /\ error' = "ConfigGenerationError"
    /\ pc' = "failed"
    /\ UNCHANGED <<entry, count, configs, used_vlans, used_networks, vlan_id,
                   warnings, csv_file0, csv_file>>
    /\ UNCHANGED <<splicevars, asmvars, fnvars>>

\* commits the drawn id without looking at used_vlans
DrawVlan_NoCheck(v) ==
    /\ pc = "vlan"
    /\ used_vlans' = used_vlans \cup {v}
    /\ vlan_id' = v
    /\ pc' = "net"
    /\ UNCHANGED <<entry, count, configs, used_networks, warnings, error,
                   csv_file0, csv_file>>
    /\ UNCHANGED <<splicevars, asmvars, fnvars>>

\* one pass of the first `while True`: vlan_id is assigned the draw, which
\* is committed when fresh; otherwise the loop goes round again
DrawVlan(v) ==
    /\ pc = "vlan"
    /\ vlan_id' = v
    /\ IF v \notin used_vlans
       THEN /\ used_vlans' = used_vlans \cup {v}
            /\ pc' = "net"
       ELSE UNCHANGED <<used_vlans, pc>>
    /\ UNCHANGED <<entry, count, configs, used_networks, warnings, error,
                   csv_file0, csv_file>>
    /\ UNCHANGED <<splicevars, asmvars, fnvars>>

Generated == IF entry = "generate_csv" THEN Len(csv_file) - 1 ELSE Len(configs)

\* puts the new record in front of the list
DrawNet_Prepend(ip, dept, wan) ==
    /\ pc = "net"
    /\ LET network_base == NetworkBase(ip)
           description == dept \o Digits(vlan_id)
       IN IF network_base \notin used_networks
          THEN /\ used_networks' = used_networks \cup {network_base}
               /\ IF entry = "generate_csv"
                  THEN /\ csv_file' = Append(csv_file,
                              <<vlan_id, network_base, description, wan>>)
                       /\ UNCHANGED configs
                  ELSE /\ configs' = <<VLANConfig(vlan_id, network_base, description, wan)>>
                                  \o configs
                       /\ UNCHANGED csv_file
               /\ pc' = IF Generated + 1 = count THEN "done" ELSE "vlan"
          ELSE UNCHANGED <<used_networks, configs, csv_file, pc>>
    /\ UNCHANGED <<entry, count, used_vlans, vlan_id, warnings, error, csv_file0>>
    /\ UNCHANGED <<splicevars, asmvars, fnvars>>

\* one pass of the second `while True`; on a fresh network the record is
\* completed (department, WAN draw) and appended / written as a row
DrawNet(ip, dept, wan) ==
    /\ pc = "net"
    /\ LET network_base == NetworkBase(ip)
           description == dept \o Digits(vlan_id)
       IN IF network_base \notin used_networks
          THEN /\ used_networks' = used_networks \cup {network_base}
               /\ IF entry = "generate_csv"
                  THEN /\ csv_file' = Append(csv_file,
                              <<vlan_id, network_base, description, wan>>)
                       /\ UNCHANGED configs
                  ELSE /\ configs' = Append(configs,
                              VLANConfig(vlan_id, network_base, description, wan))
                       /\ UNCHANGED csv_file
               /\ pc' = IF Generated + 1 = count THEN "done" ELSE "vlan"
          ELSE UNCHANGED <<used_networks, configs, csv_file, pc>>
    /\ UNCHANGED <<entry, count, used_vlans, vlan_id, warnings, error, csv_file0>>
    /\ UNCHANGED <<splicevars, asmvars, fnvars>>

GenNext ==
    \/ Validate
    \/ OpenCsv
    \/ OpenCsvFails
    \/ \E v \in VlanDomain : DrawVlan(v)
    \/ \E ip \in PrivateIPs, dept \in Departments, wan \in WanDomain :
           DrawNet(ip, dept, wan)

Spec == GenInit /\ [][GenNext]_vars

\* Fair random draws: every value of a draw domain keeps being drawn, so a
\* draw that can commit a fresh value eventually does.
FairSpec ==
    /\ Spec
    /\ WF_vars(Validate)
    /\ \A v \in VlanDomain : WF_vars(DrawVlan(v))
    /\ WF_vars(\E ip \in PrivateIPs, dept \in Departments, wan \in WanDomain :
                   DrawNet(ip, dept, wan))

(***************************************************************************)
(* modify_xml_config(input_xml, tag_path, file_names)                      *)
(***************************************************************************)
XMLError(cause) == [kind |-> "XMLGenerationError", cause |-> cause]

\* the lxml check, etree.parse and root.find
ParseBase ==
    /\ s_pc = "call"
    /\ IF ~lxml_available
       THEN /\ s_error' = XMLError("none")
            /\ s_pc' = "failed"
            /\ UNCHANGED <<tree, target>>
       ELSE IF ~doc.wf
       THEN /\ s_error' = XMLError("XMLSyntaxError:document")
            /\ s_pc' = "failed"
            /\ UNCHANGED <<tree, target>>
       ELSE /\ tree' = ParseDoc(doc)
            /\ target' = Find(ParseDoc(doc), tag_path)
            /\ s_pc' = IF Find(ParseDoc(doc), tag_path).found
                       THEN "clear" ELSE "write"
            /\ UNCHANGED s_error
    /\ UNCHANGED <<lxml_available, doc, doc0, tag_path, file_names, frag_files, fi>>
    /\ UNCHANGED <<genvars, asmvars, fnvars>>

\* target found: remove its children, set the indentation text
ClearTarget ==
    /\ s_pc = "clear"
    /\ tree' = SetAt(tree, target.at, ClearElement(GetAt(tree, target.at)))
    /\ fi' = 1
    /\ s_pc' = IF file_names = <<>> THEN "write" ELSE "inject"
    /\ UNCHANGED <<lxml_available, doc, doc0, tag_path, file_names, frag_files,
                   target, s_error>>
    /\ UNCHANGED <<genvars, asmvars, fnvars>>

\* writes the file after each fragment instead of once at the end
InjectFragment_WriteEach ==
    /\ s_pc = "inject"
    /\ LET file == frag_files[file_names[fi]]
       IN IF file.exists /\ ~FragmentWellFormed(file)
          THEN /\ s_error' = XMLError("XMLSyntaxError:fragment")
               /\ s_pc' = "failed"
               /\ UNCHANGED <<tree, fi>>
          ELSE /\ tree' = IF file.exists
                          THEN SetAt(tree, target.at,
                                     AppendElements(GetAt(tree, target.at),
                                                    ParseFragment(file)))
                          ELSE tree
               /\ fi' = fi + 1
               /\ s_pc' = IF fi = Len(file_names) THEN "write" ELSE "inject"
               /\ UNCHANGED s_error
    /\ doc' = IF s_pc' = "failed" THEN doc ELSE Serialize(tree')
    /\ UNCHANGED <<lxml_available, doc0, tag_path, file_names, frag_files,
                   target>>
    /\ UNCHANGED <<genvars, asmvars, fnvars>>

\* one pass of `for file_name in file_names`
InjectFragment ==
    /\ s_pc = "inject"
    /\ LET file == frag_files[file_names[fi]]
       IN IF file.exists /\ ~FragmentWellFormed(file)
          THEN /\ s_error' = XMLError("XMLSyntaxError:fragment")
               /\ s_pc' = "failed"
               /\ UNCHANGED <<tree, fi>>
          ELSE /\ tree' = IF file.exists
                          THEN SetAt(tree, target.at,
                                     AppendElements(GetAt(tree, target.at),
                                                    ParseFragment(file)))
                          ELSE tree
               /\ fi' = fi + 1
               /\ s_pc' = IF fi = Len(file_names) THEN "write" ELSE "inject"
               /\ UNCHANGED s_error
    /\ UNCHANGED <<lxml_available, doc, doc0, tag_path, file_names, frag_files,
                   target>>
    /\ UNCHANGED <<genvars, asmvars, fnvars>>

\* tree.write(str(input_xml), ...): the last step
WriteBack ==
    /\ s_pc = "write"
    /\ doc' = Serialize(tree)
    /\ s_pc' = "done"
    /\ UNCHANGED <<lxml_available, doc0, tag_path, file_names, frag_files, tree,
                   target, fi, s_error>>
    /\ UNCHANGED <<genvars, asmvars, fnvars>>

\* the write raises OSError: the file could not be opened (and is as it
\* was), or the fault came after it had been opened for writing
WriteFails ==
    /\ s_pc = "write"
    /\ doc' \in {doc, TruncatedDoc}
    /\ s_error' = XMLError("OSError")
    /\ s_pc' = "failed"
    /\ UNCHANGED <<lxml_available, doc0, tag_path, file_names, frag_files, tree,
                   target, fi>>
    /\ UNCHANGED <<genvars, asmvars, fnvars>>

SpliceNext ==
    \/ ParseBase
    \/ ClearTarget
    \/ InjectFragment
    \/ WriteBack
    \/ WriteFails

(***************************************************************************)
(* modify_xml_config as one step: the file it leaves and the exception it  *)
(* raises when lxml is available and the final write succeeds              *)
(***************************************************************************)
modify_xml_config(input_xml, path, names, files) ==
    LET root == ParseDoc(input_xml)
        target_elem == Find(root, path)
        RECURSIVE Injected(_)
        \* the elements appended by the first n passes of the loop
        Injected(n) ==
            IF n = 0 THEN <<>>
            ELSE Injected(n - 1)
                 \o (IF files[names[n]].exists
                     THEN ParseFragment(files[names[n]]) ELSE <<>>)
        malformed == \E n \in 1..Len(names) :
                         /\ files[names[n]].exists
                         /\ ~FragmentWellFormed(files[names[n]])
    IN IF ~input_xml.wf
       THEN [doc |-> input_xml, error |-> XMLError("XMLSyntaxError:document")]
       ELSE IF ~target_elem.found
       THEN [doc |-> Serialize(root), error |-> NoError]
       ELSE IF malformed
       THEN [doc |-> input_xml, error |-> XMLError("XMLSyntaxError:fragment")]
       ELSE [doc |-> Serialize(
                         SetAt(root, target_elem.at,
                               AppendElements(
                                   ClearElement(GetAt(root, target_elem.at)),
                                   Injected(Len(names))))),
             error |-> NoError]

(***************************************************************************)
(* Inputs of the splicer specification                                     *)
(***************************************************************************)
MaxFiles == 2

\* interfaces, nat/outbound and vlans present once
BaseTreeA ==
    El("opnsense", <<>>,
       << El("system", <<>>, << Leaf("hostname", <<"f","w">>) >>),
          El("interfaces", <<>>,
             << El("wan", <<>>, << Leaf("if", <<"e","m","0">>) >>),
                El("lan", <<>>, << Leaf("if", <<"e","m","1">>) >>) >>),
          El("nat", <<>>,
             << El("outbound", <<>>, << Leaf("mode", <<"a","u","t","o","m","a","t","i","c">>) >>) >>),
          Leaf("vlans", <<>>) >>)

\* two <nat>, the first without <outbound>; two <interfaces>; escaped text
BaseTreeB ==
    El("opnsense", <<>>,
       << El("nat", <<>>, << Leaf("other", <<" ">>) >>),
          El("nat", <<>>,
             << El("outbound", <<>>, << Leaf("rule", <<"r","&","d">>) >>) >>),
          El("interfaces", <<"l","o">>, << Leaf("lan", <<>>) >>),
          El("interfaces", <<>>, << Leaf("opt1", <<>>) >>) >>)

\* none of the target paths
BaseTreeC == El("opnsense", <<>>, << Leaf("system", <<"x">>) >>)

SpliceTrees == {BaseTreeA, BaseTreeB, BaseTreeC}

\* each document pretty-printed or written without any whitespace
SpliceDocs ==
    {Serialize(t) : t \in SpliceTrees}
        \cup {DocFile(EscapeTree(t)) : t \in SpliceTrees}
        \cup {MalformedDoc}

SplicePaths ==
    { <<"interfaces">>, <<"nat", "outbound">>, <<"vlans">>, <<"dhcpd">>,
      <<"nat", "rules">> }

SpliceFiles ==
    [f1 |-> FragFile(<< Leaf("a", <<"1">>),
                        El("b", <<"\n"," "," ">>, << Leaf("c", <<"x","&","a","m","p",";","y">>) >>) >>),
     f2 |-> FragFile(<< Leaf("d", <<>>) >>),
     f3 |-> FragFile(<< Leaf("e", <<"R","&","D">>) >>),
     f4 |-> NoFile]

FileNameLists ==
    UNION {[1..n -> DOMAIN SpliceFiles] : n \in 0..MaxFiles}

SpliceInit ==
    /\ GenIdle
    /\ AsmIdle
    /\ FnIdle("none")
    /\ lxml_available \in BOOLEAN
    /\ doc \in SpliceDocs
    /\ doc0 = doc
    /\ tag_path \in SplicePaths
    /\ file_names \in FileNameLists
    /\ frag_files = SpliceFiles
    /\ s_pc = "call"
    /\ tree = NoElement
    /\ target = NotFound
    /\ fi = 1
    /\ s_error = NoError

SpliceSpec == SpliceInit /\ [][SpliceNext]_vars

(***************************************************************************)
(* generate_opnsense_config(configs, base_config, output_dir, options)     *)
(***************************************************************************)
\* `if options is None: options = {...}`
EffectiveOptions ==
    IF a_options.given THEN a_options.dict ELSE DefaultOptions

LogEntry(step, m) == [step |-> step, part |-> m.part_name, path |-> m.tag_path]
CopyEntry == [step |-> "copy", part |-> "", path |-> <<>>]

\* one pass of the first `for module_info in modules`: the generator opens
\* part<order>_<part_name>.xml for writing and writes the fragment
RenderPart ==
    /\ a_pc = "render"
    /\ LET m == Modules[a_k]
       IN /\ frag_files' = [frag_files EXCEPT ![a_k] =
                 FragFile(RunGenerator(m.part_name, a_configs, EffectiveOptions))]
          /\ log' = Append(log, LogEntry("render", m))
    /\ IF a_k = Len(Modules)
       THEN a_pc' = "copy" /\ a_k' = 1
       ELSE a_pc' = a_pc /\ a_k' = a_k + 1
    /\ UNCHANGED <<a_configs, a_options, base_config, base0, a_error, a_result>>
    /\ UNCHANGED <<lxml_available, doc, doc0, tag_path, file_names, s_pc, tree,
                   target, fi, s_error>>
    /\ UNCHANGED <<genvars, fnvars>>

\* the generator's open raises OSError
RenderFails ==
    /\ a_pc = "render"
    /\ a_error' = XMLError("OSError")
    /\ a_pc' = "failed"
    /\ UNCHANGED <<a_k, a_configs, a_options, base_config, base0, log, a_result>>
    /\ UNCHANGED <<genvars, splicevars, fnvars>>
\* the output file before the call: not there, or left by an earlier run
AbsentDoc == [wf |-> FALSE, root |-> El("", <<" ">>, <<>>)]

\* moves the base document instead of copying it
CopyBase_Move ==
    /\ a_pc = "copy"
    /\ doc' = base_config
    /\ base_config' = AbsentDoc
    /\ log' = Append(log, CopyEntry)
    /\ a_pc' = "splice"
    /\ a_k' = 1
    /\ UNCHANGED <<a_configs, a_options, base0, a_error, a_result>>
    /\ UNCHANGED <<lxml_available, doc0, tag_path, file_names, frag_files, s_pc,
                   tree, target, fi, s_error>>
    /\ UNCHANGED <<genvars, fnvars>>


\* shutil.copy2(base_config, final_config)
CopyBase ==
    /\ a_pc = "copy"
    /\ doc' = base_config
    /\ log' = Append(log, CopyEntry)
    /\ a_pc' = "splice"
    /\ a_k' = 1
    /\ UNCHANGED <<a_configs, a_options, base_config, base0, a_error, a_result>>
    /\ UNCHANGED <<lxml_available, doc0, tag_path, file_names, frag_files, s_pc,
                   tree, target, fi, s_error>>
    /\ UNCHANGED <<genvars, fnvars>>

\* the copy raises OSError
CopyFails ==
    /\ a_pc = "copy"
    /\ a_error' = XMLError("OSError")
    /\ a_pc' = "failed"
    /\ UNCHANGED <<a_k, a_configs, a_options, base_config, base0, log, a_result>>
    /\ UNCHANGED <<genvars, splicevars, fnvars>>

\* advance the second `for module_info in modules`, return after the last
NextModule ==
    IF a_k = Len(Modules)
    THEN a_pc' = "done" /\ a_result' = "generated_base" /\ a_k' = a_k
    ELSE a_pc' = a_pc /\ a_result' = a_result /\ a_k' = a_k + 1

\* one pass of the second loop: modify_xml_config(final_config,
\* module_info["tag_path"], [xml_file]) is called when xml_file exists
BeginSplice ==
    /\ a_pc = "splice"
    /\ s_pc = "idle"
    /\ IF frag_files[a_k].exists
       THEN /\ tag_path' = Modules[a_k].tag_path
            /\ file_names' = <<a_k>>
            /\ doc0' = doc
            /\ tree' = NoElement
            /\ target' = NotFound
            /\ fi' = 1
            /\ s_pc' = "call"
            /\ log' = Append(log, LogEntry("splice", Modules[a_k]))
            /\ UNCHANGED <<a_pc, a_k, a_result>>
       ELSE /\ NextModule
            /\ UNCHANGED <<tag_path, file_names, doc0, tree, target, fi, s_pc, log>>
    /\ UNCHANGED <<a_configs, a_options, base_config, base0, a_error>>
    /\ UNCHANGED <<lxml_available, doc, frag_files, s_error>>
    /\ UNCHANGED <<genvars, fnvars>>

\* modify_xml_config returned
EndSplice ==
    /\ a_pc = "splice"
    /\ s_pc = "done"
    /\ s_pc' = "idle"
    /\ NextModule
    /\ UNCHANGED <<a_configs, a_options, base_config, base0, log, a_error>>
    /\ UNCHANGED <<lxml_available, doc, doc0, tag_path, file_names, frag_files,
                   tree, target, fi, s_error>>
    /\ UNCHANGED <<genvars, fnvars>>

\* modify_xml_config raised: `except Exception` wraps it, nothing is undone
SpliceRaises ==
    /\ a_pc = "splice"
    /\ s_pc = "failed"
    /\ a_error' = XMLError(s_error.kind)
    /\ a_pc' = "failed"
    /\ UNCHANGED <<a_k, a_configs, a_options, base_config, base0, log, a_result>>
    /\ UNCHANGED <<genvars, splicevars, fnvars>>

AssemblyNext ==
    \/ RenderPart
    \/ RenderFails
    \/ CopyBase
    \/ CopyFails
    \/ BeginSplice
    \/ EndSplice
    \/ SpliceRaises
    \/ ParseBase
    \/ ClearTarget
    \/ InjectFragment
    \/ WriteBack
    \/ WriteFails

(***************************************************************************)
(* Inputs of the assembly specification                                    *)
(***************************************************************************)
MaxRecords == 2

AsmRecords ==
    { VLANConfig(100, <<"1","9","2",".","1","6","8",".","1","0","0",".","x">>, <<"T","e","s","t","V","L","A","N">>, 1),
      VLANConfig(20, <<"1","0",".","0",".","1",".","x">>, <<"R","&","D">>, 2),
      VLANConfig(4094, <<"1","7","2",".","1","6",".","3",".","x">>, <<"G","ä","s","t","e","-","W","L","A","N"," ","1">>, 3) }

AsmConfigLists == UNION {[1..n -> AsmRecords] : n \in 0..MaxRecords}

AsmOptions ==
    { [given |-> FALSE, dict |-> DefaultOptions],
      [given |-> TRUE,
       dict |-> [firewallNr |-> 2, opt_counter |-> 1, wan1 |-> <<"1","9","2",".","0",".","2",".","1">>,
                 wan2 |-> <<"1","9","2",".","0",".","2",".","2">>, wan3 |-> <<"1","9","2",".","0",".","2",".","3">>]],
      [given |-> TRUE, dict |-> [firewallNr |-> 1]] }

\* a base document with all seven target paths
BaseTreeFull ==
    El("opnsense", <<>>,
       << El("interfaces", <<>>,
             << El("wan", <<>>, << Leaf("if", <<"e","m","0">>) >>),
                El("lan", <<>>, << Leaf("if", <<"e","m","1">>) >>) >>),
          El("dhcpd", <<>>, << Leaf("lan", <<>>) >>),
          El("nat", <<>>,
             << El("outbound", <<>>, << Leaf("mode", <<"a","u","t","o","m","a","t","i","c">>) >>) >>),
          El("filter", <<>>, << Leaf("rule", <<"o","l","d">>) >>),
          Leaf("virtualip", <<>>),
          El("vlans", <<>>, << Leaf("vlan", <<"o","l","d">>) >>),
          El("OPNsense", <<>>,
             << El("freeradius", <<>>,
                   << El("user", <<>>,
                         << El("users", <<>>,
                               << Leaf("user", <<"o","l","d">>) >>) >>) >>) >>) >>)

AsmBaseDocs ==
    {Serialize(BaseTreeFull), Serialize(BaseTreeA), MalformedDoc}

AssemblyInit ==
    /\ GenIdle
    /\ FnIdle("none")
    /\ lxml_available \in BOOLEAN
    /\ doc \in {AbsentDoc, Serialize(BaseTreeC)}
    /\ doc0 = doc
    /\ tag_path = <<>>
    /\ file_names = <<>>
    /\ frag_files = [k \in 1..Len(Modules) |-> NoFile]
    /\ s_pc = "idle"
    /\ tree = NoElement
    /\ target = NotFound
    /\ fi = 1
    /\ s_error = NoError
    /\ a_pc = "render"
    /\ a_k = 1
    /\ a_configs \in AsmConfigLists
    /\ a_options \in AsmOptions
    /\ base_config \in AsmBaseDocs
    /\ base0 = base_config
    /\ log = <<>>
    /\ a_error = NoError
    /\ a_result = "none"

AssemblySpec == AssemblyInit /\ [][AssemblyNext]_vars

(***************************************************************************)
(* The fragment renderers called on their own                              *)
(***************************************************************************)
RendererNames == {Modules[k].part_name : k \in 1..Len(Modules)}

\* generate_<part>_xml(configs, output_file, options): opens output_file for
\* writing and writes one element per record
Render(part_name) ==
    /\ r_error = "none"
    /\ ~r_files[part_name].exists
    /\ r_files' = [r_files EXCEPT ![part_name] =
                      FragFile(RunGenerator(part_name, r_configs, r_options))]
    /\ UNCHANGED <<r_configs, r_options, r_error>>
    /\ UNCHANGED <<genvars, splicevars, asmvars, escvars, csvvars, factoryvars, ordervars>>

\* output_file.open("w") raises OSError; no renderer catches it
RenderOpenFails(part_name) ==
    /\ r_error = "none"
    /\ ~r_files[part_name].exists
    /\ r_error' = "OSError"
    /\ UNCHANGED <<r_configs, r_options, r_files>>
    /\ UNCHANGED <<genvars, splicevars, asmvars, escvars, csvvars, factoryvars, ordervars>>

\* legacy genNAT.generate_xml_from_csv(csv_file, output_file, options) on
\* the CSV file that holds the records r_configs; its ValueError reaches
\* the caller
LegacyGenNat ==
    /\ r_error = "none"
    /\ ~r_files["LegacyNAT"].exists
    /\ LET rows == [k \in 1..Len(r_configs) |->
                      << Str(r_configs[k].vlan_id), r_configs[k].ip_network,
                         r_configs[k].description,
                         Str(r_configs[k].wan_assignment) >>]
           out == generate_xml_from_csv(rows, r_options)
       IN /\ r_files' = [r_files EXCEPT !["LegacyNAT"] = FragFile(out.elems)]
          /\ r_error' = out.error
    /\ UNCHANGED <<r_configs, r_options>>
    /\ UNCHANGED <<genvars, splicevars, asmvars, escvars, csvvars, factoryvars, ordervars>>

RenderNext ==
    \/ \E part_name \in RendererNames : Render(part_name)
    \/ \E part_name \in RendererNames : RenderOpenFails(part_name)
    \/ LegacyGenNat

\* lists of records as load_from_csv or a caller can build them: VLANConfig
\* does not restrict wan_assignment
RenderConfigLists ==
    LET records ==
            AsmRecords \cup
            { VLANConfig(30, <<"1","0",".","0",".","2",".","x">>, <<"L","a","b">>, 4),
              VLANConfig(31, <<"1","0",".","0",".","3",".","x">>, <<"D","M","Z","/","O","s","t">>, 0) }
    IN UNION {[1..n -> records] : n \in 0..MaxRecords}

RenderOptions ==
    { DefaultOptions,
      [firewallNr |-> 2, opt_counter |-> 1, wan1 |-> <<"1","9","2",".","0",".","2",".","1">>,
       wan2 |-> <<"1","9","2",".","0",".","2",".","2">>, wan3 |-> <<"1","9","2",".","0",".","2",".","3">>],
      [firewallNr |-> 1],
      [firewallNr |-> 3, opt_counter |-> 9, wan1 |-> <<"1","9","8",".","5","1",".","1","0","0",".","7">>],
      \* the options the CLI builds for --firewall-nr 6
      [DefaultOptions EXCEPT !.firewallNr = 6] }

RenderInit ==
    /\ GenIdle
    /\ SpliceIdle
    /\ AsmIdle
    /\ FnIdle("render")
    /\ r_configs \in RenderConfigLists
    /\ r_options \in RenderOptions
    /\ r_files = [part_name \in RendererNames \cup {"LegacyNAT"} |-> NoFile]
    /\ r_error = "none"

RenderSpec == RenderInit /\ [][RenderNext]_vars

(***************************************************************************)
(* escape_xml_string applied to a string, and to its own result            *)
(***************************************************************************)
MaxLen == 3
MaxCalls == 2

\* s = escape_xml_string(s), or s = factory._escape_xml_string(s)
ApplyEscape ==
    /\ esc_calls < MaxCalls
    /\ esc_text' = IF esc_fn = "escape_xml_string"
                   THEN escape_xml_string(esc_text)
                   ELSE _escape_xml_string(esc_text)
    /\ esc_calls' = esc_calls + 1
    /\ UNCHANGED <<esc_fn, esc_in>>
    /\ UNCHANGED <<genvars, splicevars, asmvars, rendervars, csvvars, factoryvars, ordervars>>

\* the strings of up to MaxLen characters over the keys of the replacement
\* table, the XML markup characters and two characters neither touches
EscapeInit ==
    LET alphabet ==
            {"ä", "ö", "ü", "ß", "Ä", "Ö", "Ü", " ", "-", "/", "&", "<", ">", "a", "_"}
    IN /\ GenIdle
       /\ SpliceIdle
       /\ AsmIdle
       /\ FnIdle("escape")
       /\ esc_fn \in {"escape_xml_string", "_escape_xml_string"}
       /\ esc_in \in UNION {[1..n -> alphabet] : n \in 0..MaxLen}
       /\ esc_text = esc_in
       /\ esc_calls = 0

EscapeSpec == EscapeInit /\ [][ApplyEscape]_vars

(***************************************************************************)
(* save_to_csv and load_from_csv.  The file is its text: csv.writer joins  *)
(* the fields with "," and ends a row with "\r\n", csv.reader splits the   *)
(* text again.                                                             *)
(***************************************************************************)
HeaderFields == <<<<"V","L","A","N">>, <<"I","P"," ","R","a","n","g","e">>, <<"B","e","s","c","h","r","e","i","b","u","n","g">>, <<"W","A","N">>>>

RECURSIVE Join(_)
Join(fields) ==
    IF fields = <<>> THEN <<>>
    ELSE IF Len(fields) = 1 THEN fields[1]
    ELSE fields[1] \o <<",">> \o Join(Tail(fields))

\* writer.writerow(fields).  QUOTE_MINIMAL: a field is quoted when it holds
\* the delimiter, the quote character or a line end; a quote inside is
\* doubled
writerow(fields) ==
    LET NeedsQuote(f) == \E k \in 1..Len(f) : f[k] \in {",", "\"", "\r", "\n"}
        QuoteField(f) ==
            IF NeedsQuote(f)
            THEN <<"\"">> \o Replace(f, <<"\"">>, <<"\"", "\"">>) \o <<"\"">>
            ELSE f
    IN Join([k \in 1..Len(fields) |-> QuoteField(fields[k])]) \o <<"\r", "\n">>

\* the same row with the IP Range and Beschreibung columns exchanged
CsvRowFields_Swapped(config) ==
    <<Str(config.vlan_id), config.description, config.ip_network,
      Str(config.wan_assignment)>>

\* [config.vlan_id, config.ip_network, config.description, config.wan_assignment]
CsvRowFields(config) ==
    <<Str(config.vlan_id), config.ip_network, config.description,
      Str(config.wan_assignment)>>

RECURSIVE WriteRows(_)
WriteRows(cfgs) ==
    IF cfgs = <<>> THEN <<>>
    ELSE writerow(CsvRowFields(Head(cfgs))) \o WriteRows(Tail(cfgs))

\* the parser of csv.reader on one character: st is its state, field and
\* row are the field and the row being read, rows the rows read so far
ReaderStep(p, c) ==
    LET EndField == [p EXCEPT !.st = "START_FIELD", !.field = <<>>,
                              !.row = Append(p.row, p.field)]
        EndRow == [st |-> "START_RECORD", field |-> <<>>, row |-> <<>>,
                   rows |-> Append(p.rows, Append(p.row, p.field))]
        AddChar(st) == [p EXCEPT !.st = st, !.field = Append(p.field, c)]
    IN CASE p.st = "START_RECORD" /\ c = "\n" ->
                [p EXCEPT !.rows = Append(p.rows, <<>>)]
         [] p.st \in {"START_RECORD", "START_FIELD"} /\ c = "\"" ->
                [p EXCEPT !.st = "IN_QUOTED_FIELD"]
         [] p.st = "IN_QUOTED_FIELD" /\ c = "\"" ->
                [p EXCEPT !.st = "QUOTE_IN_QUOTED_FIELD"]
         [] p.st = "IN_QUOTED_FIELD" /\ c # "\"" ->
                AddChar("IN_QUOTED_FIELD")
         [] p.st = "QUOTE_IN_QUOTED_FIELD" /\ c = "\"" ->
                AddChar("IN_QUOTED_FIELD")
         [] p.st # "IN_QUOTED_FIELD" /\ c = "," ->
                EndField
         [] p.st \in {"START_FIELD", "IN_FIELD", "QUOTE_IN_QUOTED_FIELD"}
              /\ c = "\n" ->
                EndRow
         [] OTHER ->
                AddChar("IN_FIELD")

\* the parser run over the characters of t from state p, left to right:
\* first over the left half of t, then from the state q it is in there
\* over the right half
RECURSIVE ReadChars(_, _)
ReadChars(t, p) ==
    IF t = <<>> THEN p
    ELSE IF Len(t) = 1 THEN ReaderStep(p, t[1])
    ELSE LET half == Len(t) \div 2
             q == ReadChars(SubSeq(t, 1, half), p)
         IN IF q.st \in {"START_RECORD", "START_FIELD", "IN_FIELD",
                         "IN_QUOTED_FIELD", "QUOTE_IN_QUOTED_FIELD"}
            THEN ReadChars(SubSeq(t, half + 1, Len(t)), q)
            ELSE q

\* list(csv.reader(file)).  csv_file.open() reads in text mode without
\* newline="": "\r\n" and "\r" arrive as "\n".  At the end of the text an
\* unfinished row is a row.
reader(t) ==
    LET u == [k \in 1..Len(t) |->
                IF t[k] = "\n" /\ k > 1 /\ t[k - 1] = "\r" THEN ""
                ELSE IF t[k] = "\r" THEN "\n"
                ELSE t[k]]
        Kept(c) == c # ""
        p == ReadChars(SelectSeq(u, Kept),
                       [st |-> "START_RECORD", field |-> <<>>, row |-> <<>>,
                        rows |-> <<>>])
    IN IF p.st = "START_RECORD" THEN p.rows
       ELSE Append(p.rows, Append(p.row, p.field))

\* the decimal literals int() accepts: an optional sign and digits
IsInt(s) ==
    LET body == IF s # <<>> /\ Head(s) \in {"+", "-"} THEN Tail(s) ELSE s
    IN /\ body # <<>>
       /\ \A k \in 1..Len(body) : \E d \in 0..9 : DigitChar(d) = body[k]

RECURSIVE DigitsValue(_)
DigitsValue(s) ==
    IF s = <<>> THEN 0
    ELSE 10 * DigitsValue(SubSeq(s, 1, Len(s) - 1))
         + (CHOOSE d \in 0..9 : DigitChar(d) = s[Len(s)])

\* int(s) for a literal IsInt accepts
Int_(s) ==
    IF Head(s) = "-" THEN 0 - DigitsValue(Tail(s))
    ELSE IF Head(s) = "+" THEN DigitsValue(Tail(s))
    ELSE DigitsValue(s)

\* the exception the loop body raises on a row, "none" if it appends
RowError(row) ==
    IF Len(row) < 1 THEN "IndexError"
    ELSE IF ~IsInt(Strip(row[1])) THEN "ValueError"
    ELSE IF Len(row) < 4 THEN "IndexError"
    ELSE IF ~IsInt(Strip(row[4])) THEN "ValueError"
    ELSE "none"

CsvFile(text) == [exists |-> TRUE, text |-> text]
NoCsvFile == [exists |-> FALSE, text |-> <<>>]

ConfigError(cause) == [kind |-> "ConfigGenerationError", cause |-> cause]

\* save_to_csv(configs, output_file)
SaveToCsv ==
    /\ t_pc = "save"
    /\ t_file' = CsvFile(writerow(HeaderFields) \o WriteRows(t_configs))
    /\ t_pc' = IF t_entry = "round_trip" THEN "load" ELSE "done"
    /\ UNCHANGED <<t_entry, t_configs, t_loaded, t_error>>
    /\ UNCHANGED <<genvars, splicevars, asmvars, rendervars, escvars, factoryvars, ordervars>>

\* open or a write raises OSError: the file is as it was when open failed,
\* and holds what had been flushed when a write failed
SaveFails ==
    /\ t_pc = "save"
    /\ t_file' \in {t_file, CsvFile(<<>>), CsvFile(writerow(HeaderFields))}
    /\ t_error' = ConfigError("OSError")
    /\ t_pc' = "failed"
    /\ UNCHANGED <<t_entry, t_configs, t_loaded>>
    /\ UNCHANGED <<genvars, splicevars, asmvars, rendervars, escvars, factoryvars, ordervars>>

\* load_from_csv(csv_file) on a file that opens
LoadFromCsv ==
    /\ t_pc = "load"
    /\ t_file.exists
    /\ LET rows == reader(t_file.text)
           data == Tail(rows)
           \* the first row on which the loop body raises
           bad == CHOOSE k \in 1..Len(data) :
                      /\ RowError(data[k]) # "none"
                      /\ \A j \in 1..(k - 1) : RowError(data[j]) = "none"
           RowConfig(row) ==
               VLANConfig(Int_(Strip(row[1])), Strip(row[2]), Strip(row[3]),
                          Int_(Strip(row[4])))
       IN IF rows = <<>>
          THEN /\ t_error' = [kind |-> "StopIteration", cause |-> "none"]
               /\ t_pc' = "failed"
               /\ UNCHANGED t_loaded
          ELSE IF \E k \in 1..Len(data) : RowError(data[k]) # "none"
          THEN /\ t_error' = ConfigError(RowError(data[bad]))
               /\ t_pc' = "failed"
               /\ UNCHANGED t_loaded
          ELSE /\ t_loaded' = [returned |-> TRUE,
                               list |-> [k \in 1..Len(data) |-> RowConfig(data[k])]]
               /\ t_pc' = "done"
               /\ UNCHANGED t_error
    /\ UNCHANGED <<t_entry, t_configs, t_file>>
    /\ UNCHANGED <<genvars, splicevars, asmvars, rendervars, escvars, factoryvars, ordervars>>

\* csv_file.open() raises OSError (the file is missing or unreadable)
LoadOpenFails ==
    /\ t_pc = "load"
    /\ t_error' = ConfigError("OSError")
    /\ t_pc' = "failed"
    /\ UNCHANGED <<t_entry, t_configs, t_file, t_loaded>>
    /\ UNCHANGED <<genvars, splicevars, asmvars, rendervars, escvars, factoryvars, ordervars>>

CsvNext ==
    \/ SaveToCsv
    \/ SaveFails
    \/ LoadFromCsv
    \/ LoadOpenFails

MaxRows == 2

\* save_to_csv starts from a list of up to MaxRows records as
\* generate_vlan_configurations builds them, without a repeated VLAN id or
\* network; load_from_csv starts from a file written by hand or by another
\* tool
CsvInit ==
    LET GeneratedRecord(v, ip, k, w) ==
            VLANConfig(v, NetworkBase(ip), DepartmentNames[k] \o Digits(v), w)
        generated ==
            { GeneratedRecord(10, <<10, 0, 0, 1>>, 1, 1),
              GeneratedRecord(100, <<192, 168, 100, 7>>, 2, 2),
              GeneratedRecord(4094, <<172, 16, 3, 9>>, 11, 3),
              GeneratedRecord(11, <<10, 0, 1, 1>>, 4, 3),
              GeneratedRecord(2048, <<192, 168, 0, 1>>, 12, 1) }
        header == <<"V","L","A","N",",","I","P"," ","R","a","n","g","e",",","B","e","s","c","h","r","e","i","b","u","n","g",",","W","A","N","\n">>
        texts ==
            { <<>>,
              header,
              header \o <<"1","0",",","1","0",".","0",".","0",".","x",",","S","a","l","e","s","1","0",",","1","\n">>,
              header \o <<" ","2","0"," ",","," ","1","0",".","0",".","1",".","x"," ",","," ","R"," ","a","n","d"," ","D"," ",",","2">>,
              header \o <<"2","1",",","1","0",".","0",".","2",".","x",",","\"","L","a","b",","," ","E","a","s","t","\"",",","4","\n">>,
              header \o <<"a","b","c",",","1","0",".","0",".","0",".","x",",","L","a","b",",","1","\n">>,
              header \o <<"1","0",",","1","0",".","0",".","0",".","x",",","L","a","b",",","x","\n">>,
              header \o <<"1","0",",","1","0",".","0",".","0",".","x",",","L","a","b","\n">>,
              header \o <<"1","0",",","1","0",".","0",".","0",".","x",",","S","a","l","e","s","1","0",",","1","\n","1","1",",","1","0",".","0",".","1",".","x","\n">>,
              header \o <<"1","0",",","1","0",".","0",".","0",".","x",",","S","a","l","e","s","1","0",",","1","\n","\n">>,
              <<"1","0",",","1","0",".","0",".","0",".","x",",","S","a","l","e","s","1","0",",","1","\n","1","1",",","1","0",".","0",".","1",".","x",",","I","T","1","1",",","2","\n">> }
    IN /\ GenIdle
       /\ SpliceIdle
       /\ AsmIdle
       /\ FnIdle("csv")
       /\ t_entry \in {"round_trip", "save_to_csv", "load_from_csv"}
       /\ IF t_entry = "load_from_csv"
          THEN /\ t_configs = <<>>
               /\ t_file \in {CsvFile(t) : t \in texts} \cup {NoCsvFile}
               /\ t_pc = "load"
          ELSE /\ t_configs \in
                      UNION { {l \in [1..n -> generated] :
                                  \A i, j \in 1..n : l[i] = l[j] => i = j}
                              : n \in 0..MaxRows }
               /\ t_file \in {NoCsvFile, CsvFile(header \o <<"1",",","o","l","d",",","o","l","d",",","1","\n">>)}
               /\ t_pc = "save"
       /\ t_loaded = [returned |-> FALSE, list |-> <<>>]
       /\ t_error = NoError

CsvSpec == CsvInit /\ [][CsvNext]_vars

(***************************************************************************)
(* generate_opnsense_config(base_config, output_dir, count, options) of    *)
(* opnsense_config_generator.py: the records are generated inside the try  *)
(* block, then rendered, and spliced into a copy of the base document.     *)
(***************************************************************************)
\* vlan_configs = generate_vlan_configurations(count) returned
GenerationReturns ==
    /\ a_pc = "generate"
    /\ pc = "done"
    /\ a_configs' = configs
    /\ a_pc' = "render"
    /\ UNCHANGED <<a_k, a_options, base_config, base0, log, a_error, a_result>>
    /\ UNCHANGED <<genvars, splicevars, fnvars>>

\* generate_vlan_configurations(count) raised inside the try block:
\* `except Exception` wraps whatever it raised
GenerationRaises ==
    /\ a_pc = "generate"
    /\ pc = "failed"
    /\ a_error' = XMLError(error)
    /\ a_pc' = "failed"
    /\ UNCHANGED <<a_k, a_configs, a_options, base_config, base0, log, a_result>>
    /\ UNCHANGED <<genvars, splicevars, fnvars>>

FullNext ==
    \/ Validate
    \/ \E v \in VlanDomain : DrawVlan(v)
    \/ \E ip \in PrivateIPs, dept \in Departments, wan \in WanDomain :
           DrawNet(ip, dept, wan)
    \/ GenerationReturns
    \/ GenerationRaises
    \/ RenderPart
    \/ RenderFails
    \/ CopyBase
    \/ CopyFails
    \/ BeginSplice
    \/ EndSplice
    \/ SpliceRaises
    \/ ParseBase
    \/ ClearTarget
    \/ InjectFragment
    \/ WriteBack
    \/ WriteFails

MaxFullCount == 1

FullInit ==
    /\ entry = "generate_vlan_configurations"
    /\ count \in (-1)..MaxFullCount
    /\ pc = "entry"
    /\ configs = <<>>
    /\ used_vlans = {}
    /\ used_networks = {}
    /\ vlan_id = 0
    /\ warnings = 0
    /\ error = "none"
    /\ csv_file0 = "absent"
    /\ csv_file = "absent"
    /\ FnIdle("none")
    /\ lxml_available \in BOOLEAN
    /\ doc = AbsentDoc
    /\ doc0 = doc
    /\ tag_path = <<>>
    /\ file_names = <<>>
    /\ frag_files = [k \in 1..Len(Modules) |-> NoFile]
    /\ s_pc = "idle"
    /\ tree = NoElement
    /\ target = NotFound
    /\ fi = 1
    /\ s_error = NoError
    /\ a_pc = "generate"
    /\ a_k = 1
    /\ a_configs = <<>>
    /\ a_options \in AsmOptions
    /\ base_config \in {Serialize(BaseTreeFull), MalformedDoc}
    /\ base0 = base_config
    /\ log = <<>>
    /\ a_error = NoError
    /\ a_result = "none"

FullSpec == FullInit /\ [][FullNext]_vars

(***************************************************************************)
(* InterfaceFactory.create_from_vlan_configs.  A dict is the sequence of   *)
(* its <<key, value>> entries in insertion order.                          *)
(***************************************************************************)
Keys(d) == [k \in 1..Len(d) |-> d[k][1]]

\* d[key] = value
DictSet(d, key, value) ==
    IF \E k \in 1..Len(d) : d[k][1] = key
    THEN [k \in 1..Len(d) |-> IF d[k][1] = key THEN <<key, value>> ELSE d[k]]
    ELSE Append(d, <<key, value>>)

\* InterfaceModel(...), fields that are not passed take their defaults
InterfaceModel(if_field, descr, ipaddr, subnet, blockpriv, blockbogons, gateway) ==
    [if_field |-> if_field, descr |-> descr, enable |-> TRUE, spoofmac |-> <<>>,
     ipaddr |-> ipaddr, subnet |-> subnet, blockpriv |-> blockpriv,
     blockbogons |-> blockbogons, gateway |-> gateway]

\* the key without the position of the record
OptKey_NoIndex(opt_counter, i) == OptTag(opt_counter)

\* opt_key = f"opt{opt_counter + i}"
OptKey(opt_counter, i) == OptTag(opt_counter + i)

\* `for i, config in enumerate(configs)` from position i on (0-based):
\* interfaces_dict[opt_key] = InterfaceModel(...) built from the record
RECURSIVE AddVlanInterfaces(_, _, _, _, _)
AddVlanInterfaces(d, cfgs, i, opt_counter, ip_suffix) ==
    LET config == cfgs[i + 1]
        interface ==
            InterfaceModel(<<"v","l","a","n","0">> \o Digits(config.vlan_id),
                           <<"V">> \o Digits(config.vlan_id) \o <<"_">>
                               \o _escape_xml_string(config.description),
                           Replace(config.ip_network, <<".", "x">>,
                                   <<".">> \o Digits(ip_suffix)),
                           24, "None", "None", "None")
    IN IF i >= Len(cfgs) THEN d
       ELSE AddVlanInterfaces(DictSet(d, OptKey(opt_counter, i), interface),
                              cfgs, i + 1, opt_counter, ip_suffix)

create_from_vlan_configs(cfgs, options) ==
    LET opt_counter == Get(options, "opt_counter", 1)
        firewall_number == Get(options, "firewallNr", 1)
        ip_suffix == 250 + firewall_number
        wan == InterfaceModel(<<"i","x","0">>, <<"W","A","N">>, <<"1","1",".","2","2",".","3","3",".","4","4">>, 29,
                              "True", "True", <<"W","A","N","_","G","W","v","4">>)
        lan == InterfaceModel(<<"l","a","g","g","0">>, <<"L","A","N">>, <<"1","0",".","1",".","1",".","1","1">>, 24,
                              "None", "None", "None")
        interfaces_dict == DictSet(DictSet(<<>>, "wan", wan), "lan", lan)
    IN AddVlanInterfaces(interfaces_dict, cfgs, 0, opt_counter, ip_suffix)

\* result = factory.create_from_vlan_configs(configs, options)
CreateFromVlanConfigs ==
    /\ ~f_result.returned
    /\ f_result' = [returned |-> TRUE,
                    interfaces |-> create_from_vlan_configs(f_configs, f_options)]
    /\ UNCHANGED <<f_configs, f_options>>
    /\ UNCHANGED <<genvars, splicevars, asmvars, rendervars, escvars, csvvars, ordervars>>

FactoryInit ==
    /\ GenIdle
    /\ SpliceIdle
    /\ AsmIdle
    /\ FnIdle("factory")
    /\ f_configs \in RenderConfigLists
    /\ f_options \in RenderOptions
    /\ f_result = [returned |-> FALSE, interfaces |-> <<>>]

FactorySpec == FactoryInit /\ [][CreateFromVlanConfigs]_vars

(***************************************************************************)
(* The splices of generate_opnsense_config applied to the copied base in   *)
(* any order, and a splice applied again right after itself                *)
(***************************************************************************)
\* modify_xml_config(final_config, module_info["tag_path"], [xml_file]) for
\* the module of index k
SpliceModule(k) ==
    /\ o_error = NoError
    /\ k \notin o_applied \/ (k = o_last /\ ~o_twice)
    /\ LET out == modify_xml_config(o_doc, Modules[k].tag_path, <<k>>, o_files)
       IN /\ o_doc' = out.doc
          /\ o_error' = out.error
    /\ o_prev' = o_doc
    /\ o_twice' = (k = o_last)
    /\ o_last' = k
    /\ o_applied' = o_applied \cup {k}
    /\ UNCHANGED <<o_base, o_files>>
    /\ UNCHANGED <<genvars, splicevars, asmvars, rendervars, escvars, csvvars,
                   factoryvars>>

\* after the part files were rendered and the base was copied
OrderInit ==
    /\ GenIdle
    /\ SpliceIdle
    /\ AsmIdle
    /\ FnIdle("order")
    /\ o_base \in {Serialize(BaseTreeFull), DocFile(EscapeTree(BaseTreeFull)),
                   Serialize(BaseTreeB)}
    /\ \E cfgs \in {c \in AsmConfigLists :
                       \/ c = <<>>
                       \/ Len(c) = 1 /\ c[1].vlan_id # 4094
                       \/ Len(c) = 2 /\ c[1].vlan_id = 100
                                     /\ c[2].vlan_id = 4094} :
           o_files = [k \in 1..Len(Modules) |->
                         FragFile(RunGenerator(Modules[k].part_name, cfgs,
                                               DefaultOptions))]
    /\ o_doc = o_base
    /\ o_prev = o_base
    /\ o_applied = {}
    /\ o_last = 0
    /\ o_twice = FALSE
    /\ o_error = NoError

OrderSpec ==
    OrderInit /\ [][\E k \in 1..Len(Modules) : SpliceModule(k)]_vars

(***************************************************************************)
(* Properties of the record generator                                      *)
(***************************************************************************)
\* the records produced so far, whichever entry point runs
Records ==
    IF entry = "generate_csv"
    THEN IF csv_file = "absent" \/ pc \in {"entry", "open", "failed"} THEN <<>>
         ELSE [k \in 1..(Len(csv_file) - 1) |->
                 VLANConfig(csv_file[k + 1][1], csv_file[k + 1][2],
                            csv_file[k + 1][3], csv_file[k + 1][4])]
    ELSE configs

VlanIdSet == {Records[k].vlan_id : k \in 1..Len(Records)}
NetworkSet == {Records[k].ip_network : k \in 1..Len(Records)}

\* C1: for 1 <= count <= MAX_VLAN_COUNT the records have pairwise distinct
\* vlan_id and pairwise distinct network_base values: each of the two sets
\* has as many elements as there are records, and count of them on return.
C1_Unique ==
    (1 <= count /\ count <= MAX_VLAN_COUNT) =>
        /\ Cardinality(VlanIdSet) = Len(Records)
        /\ Cardinality(NetworkSet) = Len(Records)
        /\ pc = "done" => Cardinality(VlanIdSet) = count
                           /\ Cardinality(NetworkSet) = count

C1_Witness ==
    /\ pc = "done"
    /\ count = MAX_VLAN_COUNT
    /\ count >= 2
    /\ Len(Records) = count

\* C2: for 1 <= count <= MAX_VLAN_COUNT, under fair draws,
\* generate_vlan_configurations eventually returns exactly count records,
\* and records are only ever appended: each keeps the position it was
\* generated at.
C2_ReturnsInOrder ==
    /\ (entry = "generate_vlan_configurations"
          /\ 1 <= count /\ count <= MAX_VLAN_COUNT)
         ~> (pc = "done" /\ Len(configs) = count /\ error = "none")
    /\ [][/\ Len(configs') >= Len(configs)
          /\ \A k \in 1..Len(configs) : configs'[k] = configs[k]]_vars

C2_Witness ==
    /\ entry = "generate_vlan_configurations"
    /\ pc = "done"
    /\ count = MAX_VLAN_COUNT
    /\ Len(configs) = count
    /\ configs[Len(configs)].vlan_id = vlan_id
    /\ configs[1].vlan_id # vlan_id

\* C3: for every count > MAX_VLAN_COUNT, generate_vlan_configurations emits
\* exactly one warning, raises no error and returns exactly count records.
C3_WarnsAndReturns ==
    (entry = "generate_vlan_configurations" /\ count > MAX_VLAN_COUNT)
        ~> (pc = "done" /\ Len(configs) = count /\ warnings = 1 /\ error = "none")

\* C4: for count < 1 generation fails at once with ValueError: no record, no
\* warning, no draw, and the output file of generate_csv is neither created
\* nor truncated.
C4_RejectsBeforeIO ==
    (count < 1 /\ pc # "entry") =>
        /\ pc = "failed"
        /\ error = "ValueError"
        /\ configs = <<>>
        /\ used_vlans = {}
        /\ used_networks = {}
        /\ warnings = 0
        /\ csv_file = csv_file0

C4_Witness ==
    /\ count < 1
    /\ pc = "failed"
    /\ entry = "generate_csv"
    /\ csv_file0 # "absent"

\* C5: every record, at every point of the loop and in the returned list,
\* has VLAN_MIN <= vlan_id <= VlanMax (10..4094 in the program) and
\* wan_assignment in {1, 2, 3}.
C5_Ranges ==
    \A k \in 1..Len(Records) :
        /\ VLAN_MIN <= Records[k].vlan_id
        /\ Records[k].vlan_id <= VlanMax
        /\ Records[k].wan_assignment \in {1, 2, 3}

C5_Witness ==
    /\ pc = "done"
    /\ \E k \in 1..Len(Records) : Records[k].vlan_id = VlanMax
    /\ \E k \in 1..Len(Records) : Records[k].vlan_id = VLAN_MIN
    /\ \E k \in 1..Len(Records) : Records[k].wan_assignment = 3

(***************************************************************************)
(* Properties of the document splicer                                      *)
(***************************************************************************)
\* the parsed top-level elements of the first n listed files that exist
RECURSIVE InjectedUpTo(_)
InjectedUpTo(n) ==
    IF n = 0 THEN <<>>
    ELSE InjectedUpTo(n - 1)
         \o (IF frag_files[file_names[n]].exists
             THEN ParseFragment(frag_files[file_names[n]]) ELSE <<>>)

StripAll(elems) == [k \in 1..Len(elems) |-> StripBlank(elems[k])]

\* C6: after modify_xml_config succeeds with the target found, the target's
\* children are exactly the top-level elements of the existing fragment
\* files, in list order and in-file order, in memory and in the file written
\* (there up to blank text); no previous child remains.
C6_ChildrenReplaced ==
    (s_pc = "done" /\ target.found) =>
        /\ GetAt(tree, target.at).children = InjectedUpTo(Len(file_names))
        /\ doc.wf
        /\ GetAt(ParseDoc(doc), target.at).children
               = StripAll(InjectedUpTo(Len(file_names)))

C6_Witness ==
    /\ s_pc = "done"
    /\ target.found
    /\ file_names = <<"f2", "f1">>
    /\ GetAt(ParseDoc(doc0), target.at).children # <<>>
    /\ Len(GetAt(ParseDoc(doc), target.at).children) = 3

\* some element is reached from e by following the tags of steps
RECURSIVE PathExists(_, _)
PathExists(e, steps) ==
    \/ steps = <<>>
    \/ \E k \in 1..Len(e.children) :
           /\ e.children[k].tag = Head(steps)
           /\ PathExists(e.children[k], Tail(steps))

TargetAbsent ==
    /\ lxml_available
    /\ doc0.wf
    /\ ~PathExists(doc0.root, tag_path)

\* C7: when the target path is absent from the document, no fragment is read
\* or applied, the absent path raises no error (only a fault of the final
\* write can), and the element tree in memory and in the rewritten file is
\* the tree of the document, whatever fragment files are passed.
C7_MissingPathNoOp ==
    (TargetAbsent /\ s_pc \notin {"idle", "call"}) =>
        /\ s_pc \in {"write", "done", "failed"}
        /\ tree = ParseDoc(doc0)
        /\ fi = 1
        /\ s_pc # "failed" => s_error = NoError
        /\ s_pc = "failed" => s_error.cause = "OSError"
        /\ s_pc = "done" => doc.wf /\ ParseDoc(doc) = ParseDoc(doc0)

C7_Witness ==
    /\ TargetAbsent
    /\ s_pc = "done"
    /\ file_names = <<"f3", "f1">>
    /\ doc # doc0

\* C8: when modify_xml_config fails because the document or a fragment is
\* not well-formed, it raises XMLGenerationError carrying the cause and the
\* file is exactly as before the call; the file is written only after every
\* in-memory mutation has been done.
C8_FailureLeavesFile ==
    /\ (s_pc = "failed"
        /\ s_error.cause \in {"XMLSyntaxError:document", "XMLSyntaxError:fragment"})
       => (doc = doc0 /\ s_error.kind = "XMLGenerationError")
    /\ s_pc \in {"call", "clear", "inject", "write"} => doc = doc0

C8_Witness ==
    /\ s_pc = "failed"
    /\ s_error = XMLError("XMLSyntaxError:fragment")
    /\ fi = 2
    /\ frag_files[file_names[1]].exists
    /\ GetAt(tree, target.at).children # <<>>
    /\ doc = doc0

(***************************************************************************)
(* Properties of full-config assembly                                      *)
(***************************************************************************)
PartOrder == <<"Interface", "DHCP", "NAT", "Rules", "CARP", "VLAN", "RadiusUser">>

PartPaths ==
    << <<"interfaces">>, <<"dhcpd">>, <<"nat", "outbound">>, <<"filter">>,
       <<"virtualip">>, <<"vlans">>,
       <<"OPNsense", "freeradius", "user", "users">> >>

ExpectedSteps ==
    [k \in 1..7 |-> [step |-> "render", part |-> PartOrder[k], path |-> PartPaths[k]]]
    \o <<CopyEntry>>
    \o [k \in 1..7 |-> [step |-> "splice", part |-> PartOrder[k], path |-> PartPaths[k]]]

\* C9: assembly renders the seven fragments in the order Interface, DHCP,
\* NAT, Rules, CARP, VLAN, RadiusUser, only then copies the base document,
\* only then splices once per fragment in the same order, each at its own
\* target path and from its own fragment file; on success, and only then,
\* the path of the output document is returned.
C9_StepOrder ==
    /\ Len(log) <= Len(ExpectedSteps)
    /\ log = SubSeq(ExpectedSteps, 1, Len(log))
    /\ (a_pc = "splice" /\ s_pc # "idle") =>
           (tag_path = PartPaths[a_k] /\ file_names = <<a_k>>)
    /\ a_pc = "render" => doc = doc0
    /\ a_pc = "done" =>
           (log = ExpectedSteps /\ a_result = "generated_base" /\ a_error = NoError)
    /\ a_result # "none" => a_pc = "done"

C9_Witness ==
    /\ a_pc = "done"
    /\ Len(a_configs) = 2
    /\ base0 = Serialize(BaseTreeFull)
    /\ Len(log) = 15

\* the k-th splice (k = a_k) has failed and the failure reached the caller
SpliceFailed == a_pc = "failed" /\ s_pc = "failed"

ChildrenAt(file, at) == GetAt(ParseDoc(file), at).children

\* the output document shows the injections of fragments 1..k-1 and the
\* targets of fragments k..7 as they are in the base document
PartialOutput(k) ==
    IF ~base0.wf THEN doc = base0
    ELSE /\ doc.wf
         /\ \A j \in 1..7 :
              LET f == Find(ParseDoc(base0), PartPaths[j])
              IN f.found =>
                   ChildrenAt(doc, f.at)
                       = IF j < k THEN StripAll(ParseFragment(frag_files[j]))
                         ELSE ChildrenAt(base0, f.at)

\* C10: if the k-th splice fails there is no rollback: the output document
\* contains the injections of fragments 1..k-1, the targets of fragments
\* k..7 are as in the base document, no later splice is attempted, and
\* XMLGenerationError is raised instead of a path being returned.
C10_PartialOnFailure ==
    SpliceFailed =>
        /\ a_error.kind = "XMLGenerationError"
        /\ a_result = "none"
        /\ Len(log) = 8 + a_k
        /\ PartialOutput(a_k)

\* The partial-output statement holds for every failure of a splice other
\* than a write fault that came after the output file had been opened.
PartialUnlessWriteFault ==
    (SpliceFailed /\ doc # TruncatedDoc) =>
        /\ a_error.kind = "XMLGenerationError"
        /\ a_result = "none"
        /\ Len(log) = 8 + a_k
        /\ PartialOutput(a_k)

(***************************************************************************)
(* Properties of the fragment renderers                                    *)
(***************************************************************************)
\* the character data of the first child of e tagged tag
ChildText(e, tag) ==
    LET k == CHOOSE k \in 1..Len(e.children) : e.children[k].tag = tag
    IN e.children[k].text

Emitted(part_name) == r_files[part_name].elems

\* the WAN address of Options that wan_assignment w names
SelectedWan(w) ==
    Get(r_options, <<"wan1", "wan2", "wan3">>[w],
        <<<<"8","0",".","2","0","0",".","1","0",".","1","1">>, <<"8","0",".","2","0","0",".","1","0",".","1","2">>, <<"8","0",".","2","0","0",".","1","0",".","1","3">>>>[w])

\* C11: every rule the NAT renderer emits belongs to a record whose
\* wan_assignment is 1, 2 or 3 and has the Options WAN address that
\* wan_assignment selects as its target; for a record with wan_assignment
\* outside {1,2,3} no rule is emitted (so no rule has an empty target).
C11_NatTargetOrError ==
    r_files["NAT"].exists =>
        \A k \in 1..Len(r_configs) :
            (k + 1 <= Len(Emitted("NAT"))) =>
                /\ r_configs[k].wan_assignment \in {1, 2, 3}
                /\ ChildText(Emitted("NAT")[k + 1], "target")
                       = SelectedWan(r_configs[k].wan_assignment)
                /\ ChildText(Emitted("NAT")[k + 1], "target") # <<>>

\* For records whose wan_assignment is 1, 2 or 3 the target is the selected
\* address.
NatTargetOfValidRecords ==
    r_files["NAT"].exists =>
        \A k \in 1..Len(r_configs) :
            r_configs[k].wan_assignment \in {1, 2, 3} =>
                ChildText(Emitted("NAT")[k + 1], "target")
                    = SelectedWan(r_configs[k].wan_assignment)

\* C12: the element the Interface renderer emits for the record at position
\* i (0-based) is tagged opt<opt_counter+i>, its link name is "vlan0"
\* followed by the decimal VLAN id, and its address is the record's
\* network_base with the trailing "x" replaced by 250 + firewall_number.
C12_InterfaceElement ==
    r_files["Interface"].exists =>
        /\ Len(Emitted("Interface")) = Len(r_configs)
        /\ \A k \in 1..Len(r_configs) :
             LET e == Emitted("Interface")[k]
                 nb == r_configs[k].ip_network
             IN /\ e.tag = "opt" \o ToString(Get(r_options, "opt_counter", 1) + (k - 1))
                /\ ChildText(e, "if") = <<"v","l","a","n","0">> \o Digits(r_configs[k].vlan_id)
                /\ ChildText(e, "ipaddr")
                       = SubSeq(nb, 1, Len(nb) - 1)
                           \o Digits(250 + Get(r_options, "firewallNr", 1))

\* vlan 100, 192.168.100.x, opt_counter 1, firewall 1 gave
\* opt1 / vlan0100 / 192.168.100.251
C12_Witness ==
    /\ r_files["Interface"].exists
    /\ Len(r_configs) = 2
    /\ r_configs[1].vlan_id = 100
    /\ r_options = [firewallNr |-> 1]
    /\ Emitted("Interface")[1].tag = "opt1"
    /\ ChildText(Emitted("Interface")[1], "if") = <<"v","l","a","n","0","1","0","0">>
    /\ ChildText(Emitted("Interface")[1], "ipaddr") = <<"1","9","2",".","1","6","8",".","1","0","0",".","2","5","1">>
    /\ Emitted("Interface")[2].tag = "opt2"

\* C13: every virtual-IP element of the CARP fragment has advskew 0 when
\* firewall_number is 1 and advskew 100 for every other firewall_number,
\* whatever the records, the counter and the WAN addresses are.
C13_Advskew ==
    r_files["CARP"].exists =>
        \A k \in 1..Len(Emitted("CARP")) :
            ChildText(Emitted("CARP")[k], "advskew")
                = IF Get(r_options, "firewallNr", 1) = 1
                  THEN <<"0">> ELSE <<"1","0","0">>

C13_Witness ==
    /\ r_files["CARP"].exists
    /\ Len(Emitted("CARP")) = 2
    /\ r_configs[1] # r_configs[2]
    /\ r_options.firewallNr = 3
    /\ \A k \in 1..2 : ChildText(Emitted("CARP")[k], "advskew") = <<"1","0","0">>

(***************************************************************************)
(* Properties of the character escape                                      *)
(***************************************************************************)
EscapedAway == {" ", "-", "/", "ä", "ö", "ü", "Ä", "Ö", "Ü", "ß"}

\* C14: whatever the input string, the output of the character-escape
\* function contains no space, hyphen, slash, umlaut or sharp-s.
C14_NoForbiddenChar ==
    esc_calls >= 1 => \A k \in 1..Len(esc_text) : esc_text[k] \notin EscapedAway

C14_Witness ==
    /\ esc_fn = "escape_xml_string"
    /\ esc_calls = 1
    /\ esc_in = <<"Ä", " ", "/">>
    /\ esc_text = <<"A", "E", "_">>

\* C15: escape_xml_string applied to one of its own outputs returns that
\* output unchanged.
C15_Idempotent ==
    [][(esc_fn = "escape_xml_string" /\ esc_calls >= 1) => esc_text' = esc_text]_vars

\* The table-only escape of the factories is idempotent, and so is
\* escape_xml_string on inputs without "&", "<" and ">".
IdempotentWithoutMarkup ==
    [][(/\ esc_calls >= 1
        /\ \/ esc_fn = "_escape_xml_string"
           \/ \A k \in 1..Len(esc_in) : esc_in[k] \notin {"&", "<", ">"})
       => esc_text' = esc_text]_vars

(***************************************************************************)
(* Properties of the CSV record format                                     *)
(***************************************************************************)
\* C16: for a list the generator produced, load_from_csv applied to the
\* file save_to_csv wrote returns the same records in the same order; the
\* file begins with the header row and has one more row than the list, so
\* the header is the only row skipped on read.
C16_RoundTrip ==
    t_entry = "round_trip" =>
        /\ t_pc \in {"load", "done"} =>
               /\ reader(t_file.text)[1] = HeaderFields
               /\ Len(reader(t_file.text)) = Len(t_configs) + 1
        /\ t_pc = "done" => t_loaded = [returned |-> TRUE, list |-> t_configs]
        /\ t_pc = "failed" => t_error.cause = "OSError"

C16_Witness ==
    /\ t_entry = "round_trip"
    /\ t_pc = "done"
    /\ Len(t_configs) = 2
    /\ t_configs[1].vlan_id = 4094
    /\ t_loaded.returned
    /\ t_loaded.list = t_configs

\* C18: every failure of save_to_csv or load_from_csv is reported as
\* ConfigGenerationError carrying its cause, and nothing is returned.
C18_FailuresWrapped ==
    t_pc = "failed" =>
        /\ t_error.kind = "ConfigGenerationError"
        /\ t_error.cause \in {"OSError", "ValueError", "IndexError"}
        /\ ~t_loaded.returned

\* Every failure other than that of reading a file without any row is
\* reported that way.
WrappedUnlessEmptyFile ==
    (t_pc = "failed" /\ ~(t_file.exists /\ reader(t_file.text) = <<>>)) =>
        /\ t_error.kind = "ConfigGenerationError"
        /\ t_error.cause \in {"OSError", "ValueError", "IndexError"}
        /\ ~t_loaded.returned

(***************************************************************************)
(* Properties of the error kinds                                           *)
(***************************************************************************)
\* C17: a failure of full-config assembly has the error kind of the stage
\* that failed and carries its cause: a failure of record generation (an
\* invalid count, a fault while sampling) is a ConfigGenerationError and
\* never an XMLGenerationError; a failure while a fragment is written, the
\* base is copied or a fragment is spliced is an XMLGenerationError.
C17_ErrorKindOfStage ==
    a_pc = "failed" =>
        /\ a_error.cause # "none"
        /\ a_error.kind = IF pc = "failed" THEN "ConfigGenerationError"
                          ELSE "XMLGenerationError"

\* Failures of the rendering, copying and splicing stages are reported as
\* XMLGenerationError with their cause.
XmlStageFailuresWrapped ==
    (a_pc = "failed" /\ pc = "done") =>
        /\ a_error.cause # "none"
        /\ a_error.kind = "XMLGenerationError"

(***************************************************************************)
(* Properties of the interface factory                                     *)
(***************************************************************************)
\* the value stored under key
Lookup(d, key) == d[CHOOSE k \in 1..Len(d) : d[k][1] = key][2]

\* C19: create_from_vlan_configs over n records returns exactly n + 2
\* interfaces: "wan", "lan", and for each i in 0..n-1 one entry keyed
\* opt<opt_counter+i> built from record i.
C19_WanLanAndOnePerRecord ==
    f_result.returned =>
        LET d == f_result.interfaces
            n == Len(f_configs)
            oc == Get(f_options, "opt_counter", 1)
        IN /\ Len(d) = n + 2
           /\ \A j, k \in 1..Len(d) : d[j][1] = d[k][1] => j = k
           /\ {"wan", "lan"} \subseteq {d[k][1] : k \in 1..Len(d)}
           /\ \A i \in 0..(n - 1) :
                /\ \E k \in 1..Len(d) : d[k][1] = "opt" \o ToString(oc + i)
                /\ Lookup(d, "opt" \o ToString(oc + i)).if_field
                       = <<"v","l","a","n","0">> \o Digits(f_configs[i + 1].vlan_id)
                /\ Lookup(d, "opt" \o ToString(oc + i)).ipaddr
                       = SubSeq(f_configs[i + 1].ip_network, 1,
                                Len(f_configs[i + 1].ip_network) - 1)
                           \o Digits(250 + Get(f_options, "firewallNr", 1))

C19_Witness ==
    /\ f_result.returned
    /\ Len(f_configs) = 2
    /\ Keys(f_result.interfaces) = <<"wan", "lan", "opt9", "opt10">>

\* with no record only wan and lan are present
C19_EmptyList ==
    (f_result.returned /\ f_configs = <<>>) =>
        Keys(f_result.interfaces) = <<"wan", "lan">>

(***************************************************************************)
(* Properties of the synthetic interface index                            *)
(***************************************************************************)
\* the first child of e tagged tag
ChildElement(e, tag) ==
    e.children[CHOOSE k \in 1..Len(e.children) : e.children[k].tag = tag]

FiveRenderers == {"Interface", "DHCP", "NAT", "Rules", "CARP"}

\* the interface the element of part_name for the k-th record names
NamedInterface(part_name, k) ==
    CASE part_name = "Interface" -> Emitted("Interface")[k].tag
      [] part_name = "DHCP" -> Emitted("DHCP")[k].tag
      [] part_name = "NAT" ->
             LET network == ChildText(ChildElement(Emitted("NAT")[k + 1], "source"), "network")
             IN IF HasPrefix(network, <<"o","p","t">>)
                THEN "opt" \o ToString(DigitsValue(SubSeq(network, 4, Len(network))))
                ELSE "none"
      [] part_name = "Rules" ->
             LET interface == ChildText(Emitted("Rules")[k], "interface")
             IN IF HasPrefix(interface, <<"o","p","t">>)
                THEN "opt" \o ToString(DigitsValue(SubSeq(interface, 4, Len(interface))))
                ELSE "none"
      [] part_name = "CARP" ->
             LET interface == ChildText(Emitted("CARP")[k], "interface")
             IN IF HasPrefix(interface, <<"o","p","t">>)
                THEN "opt" \o ToString(DigitsValue(SubSeq(interface, 4, Len(interface))))
                ELSE "none"

\* C20: for the record at position i the Interface tag, the DHCP tag, the
\* NAT source network, the Rules interface and the CARP interface all name
\* opt<opt_counter+i>, in whatever order the renderers ran, and none of
\* them changes the options another one reads.
C20_SameInterfaceIndex ==
    \A part_name \in FiveRenderers :
        r_files[part_name].exists =>
            \A k \in 1..Len(r_configs) :
                NamedInterface(part_name, k)
                    = "opt" \o ToString(Get(r_options, "opt_counter", 1) + (k - 1))

C20_Witness ==
    /\ \A part_name \in FiveRenderers : r_files[part_name].exists
    /\ Len(r_configs) = 2
    /\ \A part_name \in FiveRenderers :
          /\ NamedInterface(part_name, 1) = "opt9"
          /\ NamedInterface(part_name, 2) = "opt10"

\* no renderer writes to the options dict it is given
OptionsUntouched == [][r_options' = r_options]_vars

(***************************************************************************)
(* Properties of the fragments as sequences of elements                    *)
(***************************************************************************)
\* element e of the fragment of part_name shows the data of record config
CarriesRecord(part_name, e, config) ==
    CASE part_name = "Interface" ->
             ChildText(e, "if") = <<"v","l","a","n","0">> \o Digits(config.vlan_id)
      [] part_name = "DHCP" ->
             ChildText(e, "gateway")
                 = Replace(config.ip_network, <<".", "x">>, <<".","2","5","4">>)
      [] part_name = "NAT" ->
             e.tag = "rule" /\ ChildText(e, "descr") = config.description
      [] part_name = "Rules" ->
             /\ e.tag = "rule"
             /\ ChildText(e, "descr")
                    = <<"d","e","f","a","u","l","t"," ","a","l","l","o","w"," ","V","L","A","N","_">> \o Digits(config.vlan_id) \o <<" ","a","n","y">>
      [] part_name = "CARP" ->
             e.tag = "vip" /\ ChildText(e, "vhid") = Digits(config.vlan_id)
      [] part_name = "VLAN" ->
             e.tag = "vlan" /\ ChildText(e, "tag") = Digits(config.vlan_id)
      [] part_name = "RadiusUser" ->
             e.tag = "user" /\ ChildText(e, "vlan") = Digits(config.vlan_id)

\* the k-th splice of assembly has succeeded with its target found
SplicedPart(k) ==
    /\ a_pc \in {"splice", "done"}
    /\ a_k = k
    /\ s_pc = "done"
    /\ target.found

\* C21 as stated: every fragment, NAT included, has exactly one top-level
\* element per record, in record order, and after a successful splice the
\* target element has exactly as many children as there are records.
C21_OnePerRecord ==
    \A k \in 1..Len(Modules) :
        /\ frag_files[k].exists =>
               /\ Len(frag_files[k].elems) = Len(a_configs)
               /\ \A i \in 1..Len(a_configs) :
                      CarriesRecord(Modules[k].part_name, frag_files[k].elems[i],
                                    a_configs[i])
        /\ SplicedPart(k) =>
               Len(GetAt(tree, target.at).children) = Len(a_configs)

\* the elements a fragment holds in front of its per-record elements: the
\* NAT fragment begins with <mode>advanced</mode>
LeadingElements(k) ==
    IF Modules[k].part_name = "NAT" THEN << Leaf("mode", <<"a","d","v","a","n","c","e","d">>) >>
    ELSE <<>>

\* C21 (amended): every fragment holds exactly one element per record, in
\* record order, after its leading elements (one <mode> element in the NAT
\* fragment, none in the other six); after a successful splice the target
\* element has these elements as its children, in memory and in the file:
\* n children, n + 1 under nat/outbound.
C21_OnePerRecordAfterMode ==
    \A k \in 1..Len(Modules) :
        LET lead == LeadingElements(k)
            n == Len(a_configs)
        IN /\ frag_files[k].exists =>
                  /\ Len(frag_files[k].elems) = Len(lead) + n
                  /\ SubSeq(frag_files[k].elems, 1, Len(lead)) = lead
                  /\ \A i \in 1..n :
                         CarriesRecord(Modules[k].part_name,
                                       frag_files[k].elems[Len(lead) + i],
                                       a_configs[i])
           /\ SplicedPart(k) =>
                  /\ Len(GetAt(tree, target.at).children) = Len(lead) + n
                  /\ Len(ChildrenAt(doc, target.at)) = Len(lead) + n
                  /\ \A i \in 1..n :
                         CarriesRecord(Modules[k].part_name,
                                       ChildrenAt(doc, target.at)[Len(lead) + i],
                                       a_configs[i])

C21_Witness ==
    /\ a_pc = "done"
    /\ Len(a_configs) = 2
    /\ a_configs[1].vlan_id # a_configs[2].vlan_id
    /\ Len(ChildrenAt(doc, Find(ParseDoc(doc), <<"nat", "outbound">>).at)) = 3
    /\ Len(ChildrenAt(doc, Find(ParseDoc(doc), <<"vlans">>).at)) = 2


(***************************************************************************)
(* Properties of the fragments as input of the splicer                     *)
(***************************************************************************)
\* C22: for every record sequence the renderers accept, each fragment is a
\* sequence of well-formed sibling elements: it parses once wrapped in a
\* synthetic root.
C22_FragmentsWellFormed ==
    \A part_name \in RendererNames :
        r_files[part_name].exists => FragmentWellFormed(r_files[part_name])

\* The fragments of records whose description holds neither "&" nor "<"
\* (every generated record) are well-formed, and so are the Interface, DHCP
\* and Rules fragments of every record.
WellFormedWithoutMarkup ==
    \A part_name \in RendererNames :
        (/\ r_files[part_name].exists
         /\ \/ part_name \in {"Interface", "DHCP", "Rules"}
            \/ \A i \in 1..Len(r_configs) :
                   \A k \in 1..Len(r_configs[i].description) :
                       r_configs[i].description[k] \notin {"&", "<"})
        => FragmentWellFormed(r_files[part_name])


(***************************************************************************)
(* Properties of the rejection of a WAN index outside {1, 2, 3}            *)
(***************************************************************************)
\* the positions of the records whose WAN index is outside {1, 2, 3}
InvalidWan == {i \in 1..Len(r_configs) : r_configs[i].wan_assignment \notin WanDomain}

\* C23: a record whose WAN index is outside {1, 2, 3} is rejected before
\* any I/O: the NAT renderer never gets to write its file for such a
\* sequence, and after the failure the NAT file has not been created and
\* holds no rule of an earlier record.
C23_RejectedBeforeIO ==
    InvalidWan # {} =>
        /\ ~r_files["NAT"].exists
        /\ ~r_files["LegacyNAT"].exists
        /\ r_files["LegacyNAT"].elems = <<>>

\* What the legacy renderer does instead: it rejects the sequence, but
\* after it has opened the file, which then holds one rule for every record
\* in front of the first invalid one.
LegacyRejectsAfterOpen ==
    /\ r_error = "ValueError" <=> (InvalidWan # {} /\ r_files["LegacyNAT"].exists)
    /\ r_error = "ValueError" =>
           LET first == CHOOSE i \in InvalidWan : \A j \in InvalidWan : i <= j
           IN /\ Len(r_files["LegacyNAT"].elems) = first - 1
              /\ \A i \in 1..(first - 1) :
                     ChildText(r_files["LegacyNAT"].elems[i], "target")
                         = SelectedWan(r_configs[i].wan_assignment)

\* a sequence whose second record is invalid: the file holds the rule of
\* the first
LegacyPartialFile ==
    /\ r_error = "ValueError"
    /\ Len(r_configs) = 2
    /\ Len(r_files["LegacyNAT"].elems) = 1


(***************************************************************************)
(* Properties of the default of opt_counter                                *)
(***************************************************************************)
\* element e of the fragment of part_name names the interface opt<n>
NamesIndex(part_name, e, n) ==
    CASE part_name \in {"Interface", "DHCP"} -> e.tag = OptTag(n)
      [] part_name = "NAT" ->
             ChildText(ChildElement(e, "source"), "network") = OptText(n)
      [] part_name \in {"Rules", "CARP"} -> ChildText(e, "interface") = OptText(n)

\* in every rendered fragment that uses the index, the element of the first
\* record names opt<n>
FirstIndexIs(n) ==
    \A k \in 1..Len(Modules) :
        (/\ Modules[k].part_name \in FiveRenderers
         /\ frag_files[k].exists
         /\ a_configs # <<>>)
        => NamesIndex(Modules[k].part_name,
                      frag_files[k].elems[Len(LeadingElements(k)) + 1], n)

\* C24 as stated: whenever the caller does not supply opt_counter (no
\* options, or options without that key), the index of the first record is
\* 6 in every fragment that uses it.
C24_DefaultIndexSix ==
    (~a_options.given \/ "opt_counter" \notin DOMAIN a_options.dict)
        => FirstIndexIs(6)

\* C24 (amended): when the caller passes no options the index of the first
\* record is 6 in every fragment that uses it; when the caller passes
\* options without opt_counter it is 1; when opt_counter is passed it is
\* that value.
C24_DefaultIndex ==
    FirstIndexIs(IF ~a_options.given THEN 6
                 ELSE IF "opt_counter" \notin DOMAIN a_options.dict THEN 1
                 ELSE a_options.dict.opt_counter)

C24_Witness ==
    /\ ~a_options.given
    /\ Len(a_configs) = 2
    /\ \A k \in 1..Len(Modules) : frag_files[k].exists
    /\ frag_files[1].elems[1].tag = "opt6"
    /\ frag_files[1].elems[2].tag = "opt7"
    /\ ChildText(frag_files[5].elems[1], "interface") = <<"o","p","t","6">>

\* options without opt_counter: the fragments are rendered from index 1
IndexOneWithoutKey ==
    /\ a_options.given
    /\ "opt_counter" \notin DOMAIN a_options.dict
    /\ Len(a_configs) = 2
    /\ \A k \in 1..Len(Modules) : frag_files[k].exists
    /\ frag_files[1].elems[1].tag = "opt1"


(***************************************************************************)
(* Properties of the interface address                                     *)
(***************************************************************************)
\* --firewall-nr: max=253
FirewallNrMax == 253

\* the number after the last "." of an address
LastOctet(addr) ==
    LET dot == CHOOSE k \in 1..Len(addr) :
                   addr[k] = "." /\ \A j \in (k + 1)..Len(addr) : addr[j] # "."
    IN DigitsValue(SubSeq(addr, dot + 1, Len(addr)))

\* C25: for every firewall_number of the accepted range 1..253 and every
\* record, the last octet of the address the Interface renderer emits,
\* 250 + firewall_number, is at most 255.
C25_ValidLastOctet ==
    (/\ r_files["Interface"].exists
     /\ Get(r_options, "firewallNr", 1) \in 1..FirewallNrMax)
    => \A i \in 1..Len(r_configs) :
           LastOctet(ChildText(Emitted("Interface")[i], "ipaddr")) <= 255

\* The address is valid exactly for the firewall numbers 1..5.
ValidUpToFive ==
    r_files["Interface"].exists
    => \A i \in 1..Len(r_configs) :
           LastOctet(ChildText(Emitted("Interface")[i], "ipaddr")) <= 255
               <=> Get(r_options, "firewallNr", 1) <= 5

(***************************************************************************)
(* Frame of the document splicer                                           *)
(***************************************************************************)
\* a and b are the same tree except, possibly, below the element at `at`:
\* every element that is not in that subtree has the same tag, text and
\* children at the same position
RECURSIVE SameOutside(_, _, _)
SameOutside(a, b, at) ==
    \/ at = <<>>
    \/ /\ a.tag = b.tag
       /\ a.text = b.text
       /\ Len(a.children) = Len(b.children)
       /\ Head(at) \in 1..Len(a.children)
       /\ \A k \in 1..Len(a.children) :
              IF k = Head(at)
              THEN SameOutside(a.children[k], b.children[k], Tail(at))
              ELSE a.children[k] = b.children[k]

\* the elements the target path matches, in document order
Matches == FindAll(ParseDoc(doc0), tag_path)

\* C26: after modify_xml_config succeeds, the document read back differs
\* from the document before the call only below the first element matching
\* the target path, and that element keeps its tag: every other element,
\* any later match of the same path included, has the tag, text, children
\* and position it had (and nothing changes when the path has no match).
C26_OnlyFirstMatchChanges ==
    s_pc = "done" =>
        /\ doc.wf
        /\ IF Matches = <<>>
           THEN ParseDoc(doc) = ParseDoc(doc0)
           ELSE /\ SameOutside(ParseDoc(doc0), ParseDoc(doc), Matches[1])
                /\ SameOutside(ParseDoc(doc0), tree, Matches[1])
                /\ GetAt(ParseDoc(doc), Matches[1]).tag
                       = GetAt(ParseDoc(doc0), Matches[1]).tag
                /\ \A k \in 2..Len(Matches) :
                       GetAt(ParseDoc(doc), Matches[k])
                           = GetAt(ParseDoc(doc0), Matches[k])

\* two elements match ./interfaces; the first has new children, the second
\* is as it was
C26_Witness ==
    /\ s_pc = "done"
    /\ Len(Matches) = 2
    /\ file_names = <<"f1", "f2">>
    /\ GetAt(ParseDoc(doc), Matches[1]) # GetAt(ParseDoc(doc0), Matches[1])
    /\ GetAt(ParseDoc(doc), Matches[2]).children = << Leaf("opt1", <<>>) >>

(***************************************************************************)
(* The base document during assembly                                       *)
(***************************************************************************)
SplicesBegun == Cardinality({k \in 1..Len(log) : log[k].step = "splice"})

C27_WitnessFailed ==
    /\ a_pc = "failed"
    /\ SplicesBegun > 1
    /\ base_config = base0
    /\ doc # base0

(***************************************************************************)
(* A splice whose fragment files are all missing                           *)
(***************************************************************************)
NoFragmentExists ==
    \A k \in 1..Len(file_names) : ~frag_files[file_names[k]].exists

\* C28: when the target path is found and none of the listed fragment files
\* exists, modify_xml_config raises no error for the missing files (only a
\* fault of the final write can fail the call) and the target element is
\* left with no child element, in memory and in the file written: its
\* previous children are removed although nothing is injected.
C28_EmptiedTarget ==
    (/\ lxml_available
     /\ doc0.wf
     /\ Matches # <<>>
     /\ NoFragmentExists
     /\ s_pc \notin {"idle", "call", "clear"})
    => /\ GetAt(tree, Matches[1]).children = <<>>
       /\ s_pc = "failed" => s_error.cause = "OSError"
       /\ s_pc # "failed" => s_error = NoError
       /\ s_pc = "done" =>
              /\ doc.wf
              /\ GetAt(ParseDoc(doc), Matches[1]).children = <<>>

\* a target with children, two listed files that do not exist
C28_Witness ==
    /\ s_pc = "done"
    /\ file_names = <<"f4", "f4">>
    /\ Matches # <<>>
    /\ GetAt(ParseDoc(doc0), Matches[1]).children # <<>>
    /\ GetAt(ParseDoc(doc), Matches[1]).children = <<>>
    /\ s_error = NoError

(***************************************************************************)
(* Splices repeated and reordered                                          *)
(***************************************************************************)
\* the step-wise model and the one-step operator leave the same file
StepsAgreeWithOperator ==
    (s_pc = "done" /\ lxml_available) =>
        LET out == modify_xml_config(doc0, tag_path, file_names, frag_files)
        IN out.error = NoError /\ out.doc = doc

\* C29: when modify_xml_config is applied a second time right after a
\* successful application, with the same target path and the same unchanged
\* fragment file, the second call succeeds and leaves the document the
\* first call left.
C29_SecondCallSameDocument ==
    o_twice => (o_error = NoError /\ o_doc = o_prev)

\* the repeated splice replaced children of the base, so the first call
\* changed the document and the second did not
C29_Witness ==
    /\ o_twice
    /\ o_last = 6
    /\ o_applied = {6}
    /\ o_doc = o_prev
    /\ ParseDoc(o_doc) # ParseDoc(o_base)
    /\ o_files[6].elems # <<>>

\* a second application in any document of the splicer specification
SecondCallSameDocumentAnywhere ==
    (s_pc = "done" /\ lxml_available) =>
        modify_xml_config(doc, tag_path, file_names, frag_files)
            = [doc |-> doc, error |-> NoError]

\* the document after the splices of modules 1..n in the order of the list
RECURSIVE SplicedInListOrder(_, _, _)
SplicedInListOrder(base, files, n) ==
    IF n = 0 THEN base
    ELSE modify_xml_config(SplicedInListOrder(base, files, n - 1),
                           Modules[n].tag_path, <<n>>, files).doc

\* no element a target path matches lies inside an element another target
\* path matches
DisjointTargets(root) ==
    \A j, k \in 1..Len(Modules) :
        j # k =>
            \A a \in 1..Len(FindAll(root, Modules[j].tag_path)) :
                \A b \in 1..Len(FindAll(root, Modules[k].tag_path)) :
                    ~HasPrefix(FindAll(root, Modules[j].tag_path)[a],
                               FindAll(root, Modules[k].tag_path)[b])

\* C30: the elements the seven target paths address are pairwise disjoint
\* subtrees of the document, before and after any splices; when the seven
\* splices have been applied to the copied base, each once and in any
\* order, the document read back (blank text in front of child elements
\* ignored, as the parser of modify_xml_config ignores it) is the document
\* the order of the modules list yields.
C30_SplicesCommute ==
    /\ o_doc.wf => DisjointTargets(ParseDoc(o_doc))
    /\ (o_applied = 1..Len(Modules) /\ o_error = NoError) =>
           /\ o_doc.wf
           /\ ParseDoc(o_doc)
                  = ParseDoc(SplicedInListOrder(o_base, o_files, Len(Modules)))

\* all seven spliced, the Interface part last, into a base holding old
\* children under every target
C30_Witness ==
    /\ o_applied = 1..Len(Modules)
    /\ o_last = 1
    /\ ~o_twice
    /\ o_error = NoError
    /\ o_base = Serialize(BaseTreeFull)
    /\ Len(o_files[6].elems) = 2
    /\ ParseDoc(o_doc) # ParseDoc(o_base)

\* The files themselves can differ in that blank text: the part spliced
\* last keeps the line breaks and indentation of its part file, the parts
\* spliced before it are indented again by the next pretty-printed write.
SameFileInAnyOrder ==
    (o_applied = 1..Len(Modules) /\ o_error = NoError) =>
        o_doc = SplicedInListOrder(o_base, o_files, Len(Modules))

\* the document generate_opnsense_config returns is that same document
ReturnedIsListOrder ==
    a_pc = "done" =>
        doc = SplicedInListOrder(base0, frag_files, Len(Modules))

====
